---- MODULE Spec2Model ----
(***************************************************************************)
(* Model of the fantasy_war package: the WAR engine and the replacement-   *)
(* level calculator (calculators/war_engine.py, calculators/replacement.py,*)
(* calculators/win_probability.py), the auction value calculator           *)
(* (calculators/auction_values.py) and the cache manager (data/cache.py).  *)
(*                                                                         *)
(* Numbers.  Fantasy points are integers; a mean of weekly points is kept  *)
(* as an exact fraction [num, den].  Probabilities and wins are integers   *)
(* in units of 10^-6 (Micro).  Dollars and multipliers are integers in     *)
(* units of 10^-3 (Milli).                                                 *)
(***************************************************************************)
EXTENDS Integers, Sequences, FiniteSets, TLC

VARIABLES
    mode,              \* which component the run exercises: "war", "league", "scarcity",
                       \* "auction", "cache"
    weekly_stats,      \* stats_df handed to the WAR engine: a set of weekly rows
    league_config,     \* LeagueConfig: teams, the position's max starters, minimum_games_played
    team_context,      \* team_avg_score / team_score_std
    replacement_input, \* the frame last handed to find_replacement_level
    replacement_info,  \* last value returned by find_replacement_level
    position_war,      \* last value returned by calculate_position_war
    scarcity_multipliers, \* last value returned by calculate_positional_scarcity
    league_result,     \* last value returned by calculate_league_war
    league_war,        \* the LeagueWAR handed to the auction value calculator
    total_budget,      \* AuctionValueCalculator.total_budget (dollars per team)
    auction_values,    \* league_war.auction_values, as calculate_league_auction_values returns it
    auction_scarcity,  \* the multipliers _calculate_positional_scarcity returned to it
    total_auction_value, \* league_war.total_auction_value
    enabled,           \* settings.cache.enabled
    cache,             \* CacheManager.cache: the backing store, key -> entry
    last,              \* the latest cache manager call and what its caller saw
    prev_call,         \* the cached_call made just before the latest call, if any
    win_prob_calls,    \* the latest two calls of calculate_win_probability
    weeks_call,        \* validate_weeks_list's argument and what the call gave
    cli_call,          \* a calculate-war invocation: its options, what the data
                       \* source does, and how the command ended
    loader_env,        \* the settings, which libraries import, how the sources answer
    loader,            \* the NFLDataLoader: its two source flags, or that __init__ raised
    loader_cache,      \* cache_manager's entries under the loader's cache keys
    loader_call,       \* the latest load_* call: the source calls it made, its result
    key_store,         \* cache entries by cache key, each with the years it was loaded for
    key_call,          \* the latest load_* call as the cache sees it: its years, hit or miss
    pure_call          \* the arguments of a function called on its own, and what it gave

war_vars == <<weekly_stats, league_config, team_context, replacement_input, replacement_info,
              position_war, scarcity_multipliers, league_result>>

auction_vars == <<league_war, total_budget, auction_values, auction_scarcity,
                  total_auction_value>>

cache_vars == <<enabled, cache, last, prev_call>>

\* the state of the components outside the calculators' data flow and the cache
loader_vars == <<loader_env, loader, loader_cache, loader_call>>

key_vars == <<key_store, key_call>>

rest_vars == <<key_vars, pure_call>>

outer_vars == <<win_prob_calls, weeks_call, cli_call, loader_vars, rest_vars>>

vars == <<mode, war_vars, auction_vars, cache_vars, outer_vars>>

(***************************************************************************)
(* Bounds of the model                                                     *)
(***************************************************************************)
MaxPlayers == 5        \* players of the analysed position in the input
MaxWeeks == 2          \* weekly rows per player

\* weekly MPPR points a row of the input may hold
PointSeq == <<-4, -3, 1>>

\* team scoring contexts handed to calculate_position_war
TeamContexts == {[team_avg_score |-> 0, team_score_std |-> 0],
                 [team_avg_score |-> 1, team_score_std |-> 2]}

MaxArgLen == 5         \* longest string handed to validate_weeks_list
MaxCliPositions == 2   \* most position codes in one --positions option
MaxCacheEntries == 2   \* most entries the loader's cache keys hold at once
MaxRankRows == 3       \* most rows of a frame handed to calculate_positional_rankings
MaxStatValue == 1      \* largest value of one statistic of a scored row
MaxTiers == 3          \* largest num_tiers handed to identify_breakpoint_tiers
MaxCurvePoints == 3    \* largest num_points of a value-over-replacement curve
MaxYears == 2          \* number of seasons one load_* call asks for
MaxScore == 5          \* largest score numerator handed to calculate_win_probability
MaxWarResults == 3     \* WARResults in the LeagueWAR handed to the auction calculator

\* a WARResult's wins_above_replacement, in units of 10^-3 wins
WarValues == <<-500, 0, 300, 6000>>

\* per-team budgets the auction calculator is constructed with
Budgets == {1, 3, 200}

\* total_starter_spots of a PositionWAR
StarterSpots == {1, 4}

(***************************************************************************)
(* Program constants                                                       *)
(***************************************************************************)
MinTeams == 4               \* LeagueConfig.teams: ge=4
Season == 2023              \* the season analysed (CLI default)
LastWeek == 18              \* validate_week: week_int > 18
MaxSeasonGames == 17        \* WARResult.games_played: le=17
Micro == 1000 * 1000            \* fixed-point unit of probabilities and wins
Milli == 10 * 100           \* fixed-point unit of dollars, multipliers and auction WAR

None == [none |-> TRUE]     \* Python's None
Raise == [raise |-> TRUE]   \* an exception leaving the function
NotCalled == [not_called |-> TRUE]  \* no call has returned yet

Position == "QB"            \* the position analysed

(***************************************************************************)
(* Generic helpers                                                         *)
(***************************************************************************)
Min(a, b) == IF a < b THEN a ELSE b
Max(a, b) == IF a > b THEN a ELSE b

RECURSIVE SumGames(_)
SumGames(S) ==
    IF S = {} THEN 0
    ELSE LET r == CHOOSE x \in S : TRUE IN r.games_played + SumGames(S \ {r})

RECURSIVE SumPoints(_)
SumPoints(S) ==
    IF S = {} THEN 0
    ELSE LET r == CHOOSE x \in S : TRUE IN r.fantasy_points_mppr + SumPoints(S \ {r})

RECURSIVE SumSquaredTotals(_)
SumSquaredTotals(S) ==
    IF S = {} THEN 0
    ELSE LET r == CHOOSE x \in S : TRUE
         IN r.total_fantasy_points_mppr * r.total_fantasy_points_mppr + SumSquaredTotals(S \ {r})

RECURSIVE SumTotals(_)
SumTotals(S) ==
    IF S = {} THEN 0
    ELSE LET r == CHOOSE x \in S : TRUE IN r.total_fantasy_points_mppr + SumTotals(S \ {r})

SeqToSet(s) == {s[i] : i \in DOMAIN s}

\* the integer square root, by bisection
RECURSIVE ISqrtIn(_, _, _)
ISqrtIn(n, lo, hi) ==
    IF lo >= hi THEN lo
    ELSE LET mid == (lo + hi + 1) \div 2
         IN IF mid * mid <= n THEN ISqrtIn(n, mid, hi) ELSE ISqrtIn(n, lo, mid - 1)

ISqrt(n) == ISqrtIn(n, 0, Min(n, 46340))

\* DataFrame.head(n)
HeadN(s, n) == SubSeq(s, 1, Min(n, Len(s)))

(***************************************************************************)
(* The input frames                                                        *)
(***************************************************************************)
NumTemplates == MaxWeeks * Len(PointSeq)

\* a player's weekly production: the number of weekly rows and the points of each
Template(i) ==
    [weeks |-> ((i - 1) \div Len(PointSeq)) + 1,
     pts   |-> PointSeq[((i - 1) % Len(PointSeq)) + 1]]

\* Player ids are labels and the frame has no row order of its own, so the
\* players are listed by non-decreasing template.  One template is shared by
\* at most two players (a tie of two rows with every field but the id equal).
RECURSIVE RostersFrom(_, _, _)
RostersFrom(n, lo, used) ==
    IF n = 0 THEN {<<>>}
    ELSE UNION {{<<t>> \o r : r \in RostersFrom(n - 1, t, IF t = lo THEN used + 1 ELSE 1)}
                : t \in {u \in lo..NumTemplates : u = lo => used < 2}}

Rosters == UNION {RostersFrom(n, 1, 0) : n \in 0..MaxPlayers}

\* rows of other players that are always in the frame: two players of another
\* position and a player of the analysed position who did not play
OtherRows ==
    {[player_id |-> 101, season |-> Season, week |-> 1, position |-> "RB",
      games_played |-> 1, fantasy_points_mppr |-> 9],
     [player_id |-> 103, season |-> Season, week |-> 1, position |-> "RB",
      games_played |-> 1, fantasy_points_mppr |-> 5],
     [player_id |-> 102, season |-> Season, week |-> 1, position |-> Position,
      games_played |-> 0, fantasy_points_mppr |-> 9]}

\* a row some frames hold besides: a player of the analysed position whose
\* games_played exceeds what a WARResult accepts
OverlongRows ==
    {[player_id |-> 104, season |-> Season, week |-> 1, position |-> Position,
      games_played |-> MaxSeasonGames + 1, fantasy_points_mppr |-> 7]}

WeeklyRows(roster) ==
    UNION {{[player_id |-> p, season |-> Season, week |-> w, position |-> Position,
             games_played |-> 1, fantasy_points_mppr |-> Template(roster[p]).pts]
            : w \in 1..Template(roster[p]).weeks} : p \in DOMAIN roster}
    \cup OtherRows

LeagueConfigs ==
    [teams : {MinTeams}, max_req : {0, 1}, minimum_games_played : {1, 2}]

(***************************************************************************)
(* WinProbabilityCalculator                                                *)
(***************************************************************************)
\* scipy.stats.norm.cdf at z = k/2, k = -10..10, in units of 10^-6.  At this
\* resolution the cdf is 0 below z = -5 and 1 above z = 5 (binary64 reaches
\* exactly 1.0 from z = 8.3 and exactly 0.0 from z = -38.5).
PhiTable ==
    <<0, 3, 32, 233, 1350, 6210, 22750, 66807, 158655, 308538,
      500000,
      691462, 841345, 933193, 977250, 993790, 998650, 999767, 999968, 999997, 1000000>>

PhiHalf(k) == IF k <= -10 THEN 0 ELSE IF k >= 10 THEN Micro ELSE PhiTable[k + 11]

\* variant: the upper tail 1 - cdf in place of the cdf
NormCdf_UpperTail(num, den, loc, scale) ==
    LET a == 2 * (num - loc * den)
        b == den * scale
        k == a \div b
        r == a - k * b
    IN Micro - (PhiHalf(k) + ((PhiHalf(k + 1) - PhiHalf(k)) * r) \div b)

\* norm.cdf(num/den, loc, scale): linear interpolation of the table between
\* the two half-sigma points around z
NormCdf(num, den, loc, scale) ==
    LET a == 2 * (num - loc * den)
        b == den * scale
        k == a \div b
        r == a - k * b
    IN PhiHalf(k) + ((PhiHalf(k + 1) - PhiHalf(k)) * r) \div b

CalculateWinProbability(score_num, score_den, team_average_score, team_score_std) ==
    LET std == IF team_score_std <= 0 THEN 1 ELSE team_score_std
        win_prob == NormCdf(score_num, score_den, team_average_score, std)
    IN Max(0, Min(Micro, win_prob))

\* the arguments of the calls: scores are num/den, in whole and half points
Means == {0, 2}
Stds == {-1, 0, 1, 3}
Dens == {1, 2}

\* calculate_win_probability(player_score, team_average_score, team_score_std)
CalculateWinProbabilityCall ==
    /\ mode = "win_probability"
    /\ \E num \in -MaxScore..MaxScore, den \in Dens, mean \in Means, std \in Stds :
        LET call == [score_num |-> num, score_den |-> den,
                     team_average_score |-> mean, team_score_std |-> std,
                     win_prob |-> CalculateWinProbability(num, den, mean, std)]
        IN  win_prob_calls' = IF win_prob_calls = <<>> THEN <<call>>
                              ELSE <<win_prob_calls[Len(win_prob_calls)], call>>
    /\ UNCHANGED <<mode, war_vars, auction_vars, cache_vars, weeks_call, cli_call, loader_vars, rest_vars>>

(***************************************************************************)
(* utils.validators: validate_week, validate_weeks_list on a string        *)
(***************************************************************************)
\* the characters the modelled argument strings are made of; a string is a
\* sequence of characters
Digits == {"0", "1", "8"}
WeekChars == Digits \cup {"-", ","}

WeeksArgs == UNION {[1..n -> WeekChars] : n \in 0..MaxArgLen}

DigitValue(c) == CASE c = "0" -> 0 [] c = "1" -> 1 [] c = "8" -> 8

IsDigits(s) == s # <<>> /\ \A i \in DOMAIN s : s[i] \in Digits

RECURSIVE DigitsValue(_)
DigitsValue(s) ==
    IF s = <<>> THEN 0
    ELSE 10 * DigitsValue(SubSeq(s, 1, Len(s) - 1)) + DigitValue(s[Len(s)])

\* int(s) on a string of digits, minus signs and commas: a ValueError unless
\* it is a digit string with at most one leading sign
PyInt(s) ==
    IF IsDigits(s) THEN [ok |-> TRUE, value |-> DigitsValue(s)]
    ELSE IF s # <<>> /\ s[1] = "-" /\ IsDigits(Tail(s))
         THEN [ok |-> TRUE, value |-> 0 - DigitsValue(Tail(s))]
         ELSE [ok |-> FALSE, value |-> 0]

ValidateWeek(week) ==
    LET n == PyInt(week)
    IN  IF ~n.ok THEN [ok |-> FALSE, value |-> 0, message |-> "Invalid week"]
        ELSE IF n.value < 1 \/ n.value > LastWeek
             THEN [ok |-> FALSE, value |-> 0, message |-> "Week is invalid"]
             ELSE [ok |-> TRUE, value |-> n.value, message |-> ""]

Contains(s, c) == \E i \in DOMAIN s : s[i] = c

FirstIndex(s, c) == CHOOSE i \in DOMAIN s : s[i] = c /\ \A j \in 1..(i - 1) : s[j] # c

\* s.split(",")
RECURSIVE SplitComma(_)
SplitComma(s) ==
    IF ~Contains(s, ",") THEN <<s>>
    ELSE LET i == FirstIndex(s, ",")
         IN  <<SubSeq(s, 1, i - 1)>> \o SplitComma(SubSeq(s, i + 1, Len(s)))

\* sorted(list(set(values)))
RECURSIVE SortedSet(_)
SortedSet(values) ==
    IF values = {} THEN <<>>
    ELSE LET least == CHOOSE v \in values : \A w \in values : v <= w
         IN  <<least>> \o SortedSet(values \ {least})

WeeksRaise(message) == [raised |-> TRUE, weeks |-> <<>>, message |-> message]

WeeksReturn(weeks) == [raised |-> FALSE, weeks |-> weeks, message |-> ""]

\* variant: the range branch without the start_week > end_week test
ValidateWeeksList_Unordered(weeks) ==
    IF Contains(weeks, "-") /\ ~Contains(weeks, ",")
    THEN LET i == FirstIndex(weeks, "-")
             start_week == ValidateWeek(SubSeq(weeks, 1, i - 1))
             end_week == ValidateWeek(SubSeq(weeks, i + 1, Len(weeks)))
         IN  IF ~start_week.ok \/ ~end_week.ok
             THEN WeeksRaise("Invalid week range format")
             ELSE WeeksReturn([k \in 1..(IF end_week.value >= start_week.value THEN end_week.value - start_week.value + 1 ELSE 0) |-> start_week.value + k - 1])
    ELSE WeeksRaise("Invalid week")

ValidateWeeksList(weeks) ==
    IF Contains(weeks, "-") /\ ~Contains(weeks, ",")
    THEN LET i == FirstIndex(weeks, "-")
             start_week == ValidateWeek(SubSeq(weeks, 1, i - 1))
             end_week == ValidateWeek(SubSeq(weeks, i + 1, Len(weeks)))
         IN  IF ~start_week.ok \/ ~end_week.ok
             THEN WeeksRaise("Invalid week range format")
             ELSE IF start_week.value > end_week.value
                  THEN WeeksRaise("Invalid week range: start week must be <= end week")
                  ELSE WeeksReturn([k \in 1..(end_week.value - start_week.value + 1) |-> start_week.value + k - 1])
    ELSE LET parts == SplitComma(weeks)
             validated == [k \in DOMAIN parts |-> ValidateWeek(parts[k])]
             bad == {k \in DOMAIN parts : ~validated[k].ok}
         IN  IF bad # {}
             THEN WeeksRaise(validated[CHOOSE k \in bad : \A l \in bad : k <= l].message)
             ELSE WeeksReturn(SortedSet({validated[k].value : k \in DOMAIN parts}))

ValidateWeeksListCall ==
    /\ mode = "validators"
    /\ weeks_call' = [weeks_call EXCEPT !.result = ValidateWeeksList(weeks_call.weeks)]
    /\ UNCHANGED <<mode, war_vars, auction_vars, cache_vars, win_prob_calls, cli_call, loader_vars, rest_vars>>

(***************************************************************************)
(* cli.main: the calculate-war command                                     *)
(***************************************************************************)
\* --weeks values: absent, one week, ranges, lists, malformed strings
CliWeeks ==
    { <<>>, <<"1">>, <<"1", "8">>, <<"8", "8">>, <<"0">>,
      <<"1", "-", "8">>, <<"8", "-", "1">>, <<"8", "-", "8", "8">>,
      <<"1", ",", "1", "8">>, <<"1", ",", "8", "8">>,
      <<"1", "-">>, <<"-", "1">>, <<"1", "-", "8", "-", "1">>, <<",">> }

\* --positions values, as the codes between the commas; <<>> is the option left out
CliPositionCodes == {"QB", "qb", "XX"}

CliPositions == UNION {[1..n -> CliPositionCodes] : n \in 0..MaxCliPositions}

\* what the data source does for the command: NFLDataLoader() raises, the
\* load or the fantasy-point calculation raises, or rows arrive
DataOutcomes == {"loader_raises", "load_raises", "loaded"}

\* the rows that arrive, by week and position
CliStatsRows ==
    { [week |-> 1, position |-> "QB"], [week |-> 8, position |-> "QB"],
      [week |-> LastWeek, position |-> "RB"] }

\* s.split(c)
RECURSIVE Split(_, _)
Split(s, c) ==
    IF ~Contains(s, c) THEN <<s>>
    ELSE LET i == FirstIndex(s, c)
         IN  <<SubSeq(s, 1, i - 1)>> \o Split(SubSeq(s, i + 1, Len(s)), c)

Upper(code) == CASE code = "qb" -> "QB" [] OTHER -> code

RangeList(a, b) == [k \in 1..(IF b >= a THEN b - a + 1 ELSE 0) |-> a + k - 1]

\* the week_list the command parses out of --weeks, or the ValueError of
\* int() or of the two-name unpacking
CliWeekList(weeks) ==
    IF weeks = <<>> THEN [ok |-> TRUE, weeks |-> RangeList(1, LastWeek - 1)]
    ELSE IF Contains(weeks, "-")
    THEN LET parts == Split(weeks, "-")
         IN  IF Len(parts) # 2 \/ ~PyInt(parts[1]).ok \/ ~PyInt(parts[2]).ok
             THEN [ok |-> FALSE, weeks |-> <<>>]
             ELSE [ok |-> TRUE, weeks |-> RangeList(PyInt(parts[1]).value, PyInt(parts[2]).value)]
    ELSE LET parts == Split(weeks, ",")
         IN  IF \E k \in DOMAIN parts : ~PyInt(parts[k]).ok
             THEN [ok |-> FALSE, weeks |-> <<>>]
             ELSE [ok |-> TRUE, weeks |-> [k \in DOMAIN parts |-> PyInt(parts[k]).value]]

CliPositionList(positions) == [k \in DOMAIN positions |-> Upper(positions[k])]

InSeq(x, seq) == \E k \in DOMAIN seq : seq[k] = x

\* the two filters of the command, then calculate_league_war's own week filter
CliFiltered(week_list, positions) ==
    { row \in CliStatsRows :
        /\ positions = <<>> \/ InSeq(row.position, CliPositionList(positions))
        /\ InSeq(row.week, week_list) }

CliExit(code, error, week_list, rows) == [exit_code |-> code, error |-> error, week_list |-> week_list, rows |-> rows]

\* the command from its options to its exit: an exception outside the try
\* block ends the process with a traceback and status 1, one inside prints
\* the error and raises typer.Exit(1), otherwise the results are displayed
CalculateWarCommand ==
    /\ mode = "cli"
    /\ LET parsed == CliWeekList(cli_call.weeks)
           rows == CliFiltered(parsed.weeks, cli_call.positions)
       IN  \E engine_raises \in BOOLEAN :
            cli_call' = [cli_call EXCEPT !.result =
                IF ~parsed.ok THEN CliExit(1, TRUE, <<>>, {})
                ELSE IF cli_call.data = "loader_raises" THEN CliExit(1, TRUE, parsed.weeks, {})
                ELSE IF cli_call.data = "load_raises" THEN CliExit(1, TRUE, parsed.weeks, {})
                ELSE IF rows # {} /\ engine_raises THEN CliExit(1, TRUE, parsed.weeks, rows)
                ELSE CliExit(0, FALSE, parsed.weeks, rows)]
    /\ UNCHANGED <<mode, war_vars, auction_vars, cache_vars, win_prob_calls, weeks_call, loader_vars, rest_vars>>

(***************************************************************************)
(* WARCalculator._aggregate_to_season                                      *)
(***************************************************************************)
GroupKeys(df) ==
    {[player_id |-> r.player_id, season |-> r.season, position |-> r.position] : r \in df}

GroupRows(df, k) ==
    {r \in df : r.player_id = k.player_id /\ r.season = k.season /\ r.position = k.position}

\* group_by(player_id, season, position).agg(...)
GroupBySeason(df) ==
    {[player_id |-> k.player_id, season |-> k.season, position |-> k.position,
      games_played |-> SumGames(GroupRows(df, k)),
      total_fantasy_points_mppr |-> SumPoints(GroupRows(df, k)),
      avg_fantasy_points_mppr |->
          [num |-> SumPoints(GroupRows(df, k)), den |-> Cardinality(GroupRows(df, k))],
      weeks_played |-> Cardinality(GroupRows(df, k))] : k \in GroupKeys(df)}

AggregateToSeason(weekly, cfg) ==
    {r \in GroupBySeason(weekly) : r.games_played >= cfg.minimum_games_played}

(***************************************************************************)
(* ReplacementLevelCalculator.find_replacement_level                       *)
(***************************************************************************)
\* the rows find_replacement_level keeps: the position's qualified players
QualifiedPlayers(stats_df, position, cfg) ==
    {r \in stats_df : r.position = position /\ r.games_played >= cfg.minimum_games_played}

\* sort("total_fantasy_points_mppr", descending=True): every order of the rows
\* that is non-increasing in total points (the order of tied rows is not fixed)
RECURSIVE SortedByTotal(_)
SortedByTotal(S) ==
    IF S = {} THEN {<<>>}
    ELSE LET top == {x \in S : \A y \in S : y.total_fantasy_points_mppr <= x.total_fantasy_points_mppr}
         IN UNION {{<<x>> \o t : t \in SortedByTotal(S \ {x})} : x \in top}

\* teams * max_req
StarterPoolSize(cfg) == cfg.teams * cfg.max_req

\* variant: the rank never lowered to the number of qualified players
ReplacementRank_PoolSize(position_players, cfg) == StarterPoolSize(cfg)

\* the worst available player when the pool cannot be filled, else the worst starter
ReplacementRank(position_players, cfg) ==
    IF Len(position_players) < StarterPoolSize(cfg)
    THEN Len(position_players)
    ELSE StarterPoolSize(cfg)

\* variant: the whole sorted frame taken as the starter pool
StarterPool_WholeFrame(position_players, cfg) == position_players

\* position_players.head(starter_pool_size)
StarterPool(position_players, cfg) == HeadN(position_players, StarterPoolSize(cfg))

\* position_players: the sorted frame of qualified players.  The record's
\* position_avg_fantasy_points and avg_starter_win_prob, which nothing reads,
\* are left out.
FindReplacementLevel(position_players, cfg) ==
    IF cfg.max_req = 0 THEN None
    ELSE
    LET starter_pool_size == StarterPoolSize(cfg)
        replacement_rank == ReplacementRank(position_players, cfg)
        starter_pool == StarterPool(position_players, cfg)
    IN  IF Len(starter_pool) = 0 THEN None
        ELSE
        LET replacement_data == starter_pool[Len(starter_pool)]
            avg_starter_points == SumTotals(SeqToSet(starter_pool))
            avg_starter_games == SumGames(SeqToSet(starter_pool))
        IN  IF avg_starter_games = 0 THEN Raise
            ELSE
            [player_id |-> replacement_data.player_id,
             rank |-> replacement_rank,
             total_starters |-> starter_pool_size,
             avg_fantasy_points |-> replacement_data.avg_fantasy_points_mppr,
             total_fantasy_points |-> replacement_data.total_fantasy_points_mppr,
             games_played |-> replacement_data.games_played,
             \* mean total / mean games of the pool: the pool size cancels
             avg_starter_info |->
                 [avg_fantasy_points |-> [num |-> avg_starter_points, den |-> avg_starter_games]]]

(***************************************************************************)
(* ReplacementLevelCalculator.calculate_positional_scarcity                *)
(***************************************************************************)
RbMax == 2

\* RosterRequirements.get_position_requirements(position)[1]
MaxReq(cfg, position) == IF position = Position THEN cfg.max_req ELSE RbMax

\* LeagueConfig.get_all_positions(): the positions with max starters > 0
AllPositions(cfg) == {p \in {Position, "RB"} : MaxReq(cfg, p) > 0}

\* polars std(): the sample standard deviation, in 10^-2 points (a frame of
\* one row has none)
SampleStd(S) ==
    LET n == Cardinality(S)
    IN ISqrt(((n * SumSquaredTotals(S) - SumTotals(S) * SumTotals(S)) * 10000)
                \div (n * (n - 1)))

ReplacementScarcityCap == 2000

\* one position's multiplier, in 10^-3; Raise where None / float raises
ScarcityOf(stats_df, position, cfg) ==
    LET position_players == QualifiedPlayers(stats_df, position, cfg)
        n == Cardinality(position_players)
        starter_pool_size == cfg.teams * MaxReq(cfg, position)
    IN  IF n = 0 THEN Milli
        ELSE IF SumTotals(position_players) > 0 /\ starter_pool_size > 0
        THEN IF n = 1 THEN Raise
             ELSE Min(Milli + (SampleStd(position_players) * n * 500)
                            \div (SumTotals(position_players) * starter_pool_size),
                      ReplacementScarcityCap)
        ELSE Milli

\* points_std / points_mean with points_std None: a position with a single
\* qualified player of positive total
ScarcityRaises(stats_df, position, cfg) ==
    LET position_players == QualifiedPlayers(stats_df, position, cfg)
    IN  /\ Cardinality(position_players) = 1
        /\ SumTotals(position_players) > 0
        /\ cfg.teams * MaxReq(cfg, position) > 0

PositionalScarcity(stats_df, cfg) ==
    IF \E p \in AllPositions(cfg) : ScarcityRaises(stats_df, p, cfg) THEN Raise
    ELSE [p \in AllPositions(cfg) |-> ScarcityOf(stats_df, p, cfg)]

\* calculate_positional_scarcity called on the season totals of the whole frame
CalculatePositionalScarcity ==
    /\ mode = "scarcity"
    /\ scarcity_multipliers' = PositionalScarcity(GroupBySeason(weekly_stats), league_config)
    /\ UNCHANGED <<mode, weekly_stats, league_config, team_context, replacement_input,
                   replacement_info, position_war, league_result, auction_vars, cache_vars, outer_vars>>

(***************************************************************************)
(* WARCalculator._calculate_player_war                                     *)
(***************************************************************************)
\* variant: a WARResult built without its field constraints
ValidWARResult_Unchecked(r) == TRUE

\* pydantic's field constraints of WARResult
ValidWARResult(r) ==
    /\ r.games_played >= 0 /\ r.games_played <= MaxSeasonGames
    /\ r.win_percentage >= 0 /\ r.win_percentage <= Micro
    /\ r.expected_wins >= 0
    /\ r.replacement_win_percentage >= 0 /\ r.replacement_win_percentage <= Micro
    /\ r.replacement_expected_wins >= 0

CalculatePlayerWar(player_data, info, ctx) ==
    LET player_fp == player_data.total_fantasy_points_mppr
        games_played == player_data.games_played
        win_prob == CalculateWinProbability(player_fp, 1,
                        ctx.team_avg_score, ctx.team_score_std)
        expected_wins == win_prob * games_played
        replacement_fp == info.avg_fantasy_points
        replacement_win_prob == CalculateWinProbability(replacement_fp.num, replacement_fp.den,
                        ctx.team_avg_score, ctx.team_score_std)
        replacement_wins == replacement_win_prob * games_played
        avg_starter_fp == info.avg_starter_info.avg_fantasy_points
        avg_starter_win_prob == CalculateWinProbability(avg_starter_fp.num, avg_starter_fp.den,
                        ctx.team_avg_score, ctx.team_score_std)
        war_result ==
            [player_id |-> player_data.player_id,
             season |-> player_data.season,
             position |-> player_data.position,
             games_played |-> games_played,
             total_fantasy_points |-> player_fp,
             average_fantasy_points |-> player_data.avg_fantasy_points_mppr,
             win_percentage |-> win_prob,
             expected_wins |-> expected_wins,
             replacement_win_percentage |-> replacement_win_prob,
             replacement_expected_wins |-> replacement_wins,
             wins_above_replacement |-> expected_wins - replacement_wins,
             wins_above_average |-> expected_wins - avg_starter_win_prob * games_played]
    IN IF ValidWARResult(war_result) THEN war_result ELSE None

(***************************************************************************)
(* WARCalculator.calculate_position_war                                    *)
(***************************************************************************)
\* list.sort(key=wins_above_replacement, reverse=True): stable
SortByWar(s) ==
    LET before(i) ==
            Cardinality({j \in DOMAIN s :
                \/ s[j].wins_above_replacement > s[i].wins_above_replacement
                \/ (s[j].wins_above_replacement = s[i].wins_above_replacement /\ j < i)})
    IN [k \in DOMAIN s |-> s[CHOOSE i \in DOMAIN s : before(i) = k - 1]]

\* the WARResults of the rows, those that failed left out
PlayerWars(rows, info, ctx) ==
    LET results == [i \in DOMAIN rows |-> CalculatePlayerWar(rows[i], info, ctx)]
    IN SelectSeq(results, LAMBDA w : w # None)

PositionWarOf(rows, info, ctx, cfg) ==
    [position |-> Position,
     season |-> Season,
     total_teams |-> cfg.teams,
     starters_per_team |-> cfg.max_req,
     total_starter_spots |-> cfg.teams * cfg.max_req,
     replacement_level_rank |-> info.rank,
     replacement_player_id |-> info.player_id,
     player_wars |-> SortByWar(PlayerWars(rows, info, ctx))]

\* The rows of season_stats are visited in an order sort() can return.
CalculatePositionWar ==
    /\ mode = "war"
    /\ LET position_stats ==
               {r \in weekly_stats : r.position = Position
                    /\ r.games_played >= league_config.minimum_games_played}
           season_stats == AggregateToSeason(position_stats, league_config)
       IN  IF position_stats = {}
           THEN /\ position_war' = None
                /\ UNCHANGED <<replacement_input, replacement_info>>
           ELSE \E position_players \in
                        SortedByTotal(QualifiedPlayers(season_stats, Position, league_config)) :
                    LET info == FindReplacementLevel(position_players, league_config)
                    IN  /\ replacement_input' = season_stats
                        /\ replacement_info' = info
                        /\ position_war' =
                               IF info = None THEN None
                               ELSE IF info = Raise THEN Raise
                               ELSE PositionWarOf(position_players, info, team_context, league_config)
    /\ UNCHANGED <<mode, weekly_stats, league_config, team_context, scarcity_multipliers,
                   league_result, auction_vars, cache_vars, outer_vars>>

\* find_replacement_level called on the season totals of the whole frame
FindReplacementLevelCall ==
    /\ mode = "war"
    /\ \E position_players \in
            SortedByTotal(QualifiedPlayers(GroupBySeason(weekly_stats), Position, league_config)) :
        replacement_info' = FindReplacementLevel(position_players, league_config)
    /\ replacement_input' = GroupBySeason(weekly_stats)
    /\ UNCHANGED <<mode, weekly_stats, league_config, team_context, position_war,
                   scarcity_multipliers, league_result, auction_vars, cache_vars, outer_vars>>


(***************************************************************************)
(* WARCalculator.calculate_league_war                                      *)
(***************************************************************************)
\* the values calculate_position_war can return for a position: None, a
\* PositionWAR, or Raise where the call ends in an exception
PositionWarResults(stats_df, position, cfg, ctx) ==
    LET position_cfg == [cfg EXCEPT !.max_req = MaxReq(cfg, position)]
        position_stats ==
            {r \in stats_df : r.position = position
                 /\ r.games_played >= cfg.minimum_games_played}
        season_stats == AggregateToSeason(position_stats, cfg)
    IN  IF position_stats = {} THEN {None}
        ELSE {LET info == FindReplacementLevel(position_players, position_cfg)
              IN  IF info = None THEN None
                  ELSE IF info = Raise THEN Raise
                  ELSE [PositionWarOf(position_players, info, ctx, position_cfg)
                            EXCEPT !.position = position]
              : position_players \in
                    SortedByTotal(QualifiedPlayers(season_stats, position, cfg))}

\* the weeks arguments of calculate_league_war
WeekChoices == {{1}, 1..MaxWeeks}

\* calculate_league_war, with team_context standing for what
\* _calculate_team_scoring_context returned
CalculateLeagueWar ==
    /\ mode = "league"
    /\ \E weeks \in WeekChoices :
        LET filtered_stats == {r \in weekly_stats : r.season = Season /\ r.week \in weeks}
            positions == AllPositions(league_config)
        IN  \E qb \in PositionWarResults(filtered_stats, Position, league_config, team_context),
               rb \in PositionWarResults(filtered_stats, "RB", league_config, team_context) :
              LET pos_war == [p \in positions |-> IF p = Position THEN qb ELSE rb]
              IN  league_result' =
                    IF \E p \in positions : pos_war[p] = Raise THEN Raise
                    ELSE LET kept == {p \in positions :
                                         IF pos_war[p] = None THEN FALSE
                                         ELSE Len(pos_war[p].player_wars) > 0}
                         IN  [weeks_analyzed |-> weeks,
                              positions_analyzed |-> kept,
                              position_results |-> [p \in kept |-> pos_war[p]]]
    /\ UNCHANGED <<mode, weekly_stats, league_config, team_context, replacement_input,
                   replacement_info, position_war, scarcity_multipliers, auction_vars,
                   cache_vars, outer_vars>>

(***************************************************************************)
(* AuctionValueCalculator                                                  *)
(***************************************************************************)
AuctionPositions == {"QB", "RB"}

\* a WARResult as the auction calculator reads it
WarTemplate(i) ==
    IF i = 2 * Len(WarValues) + 1
    THEN [position |-> "QB", wins_above_replacement |-> WarValues[Len(WarValues)],
          games_played |-> 0]
    ELSE [position |-> IF i <= Len(WarValues) THEN "QB" ELSE "RB",
          wins_above_replacement |-> WarValues[((i - 1) % Len(WarValues)) + 1],
          games_played |-> 1]

NumWarTemplates == 2 * Len(WarValues) + 1

RECURSIVE WarRostersFrom(_, _)
WarRostersFrom(n, lo) ==
    IF n = 0 THEN {<<>>}
    ELSE UNION {{<<t>> \o r : r \in WarRostersFrom(n - 1, t)} : t \in lo..NumWarTemplates}

WarRosters == UNION {WarRostersFrom(n, 1) : n \in 0..MaxWarResults}

WarResultsOf(roster) ==
    {[player_id |-> i, season |-> Season,
      position |-> WarTemplate(roster[i]).position,
      wins_above_replacement |-> WarTemplate(roster[i]).wins_above_replacement,
      games_played |-> WarTemplate(roster[i]).games_played] : i \in DOMAIN roster}

LeagueWarOf(roster, spots) ==
    [position_results |->
        [p \in AuctionPositions |->
            [total_starter_spots |-> spots,
             player_wars |-> {w \in WarResultsOf(roster) : w.position = p}]]]

\* a league analysed over two seasons: player 1 has a second WARResult, of
\* the season before, at the same position
LeagueWarWithRepeat(roster, spots, war) ==
    LET repeat == [player_id |-> 1, season |-> Season - 1,
                   position |-> WarTemplate(roster[1]).position,
                   wins_above_replacement |-> war, games_played |-> 1]
    IN  [position_results |->
            [p \in AuctionPositions |->
                [total_starter_spots |-> spots,
                 player_wars |-> {w \in WarResultsOf(roster) \cup {repeat} : w.position = p}]]]

RECURSIVE SumWar(_)
SumWar(S) ==
    IF S = {} THEN 0
    ELSE LET r == CHOOSE x \in S : TRUE IN r.wins_above_replacement + SumWar(S \ {r})

RECURSIVE SumSquaredWar(_)
SumSquaredWar(S) ==
    IF S = {} THEN 0
    ELSE LET r == CHOOSE x \in S : TRUE
         IN r.wins_above_replacement * r.wins_above_replacement + SumSquaredWar(S \ {r})

RECURSIVE SumDollars(_)
SumDollars(s) ==
    IF s = <<>> THEN 0 ELSE Head(s).auction_value_dollars + SumDollars(Tail(s))

\* all_war_results after sort(key=wins_above_replacement, reverse=True): the
\* sort is stable and the lists arrive in any order, so tied results end in
\* any order
RECURSIVE SortedByWar(_)
SortedByWar(S) ==
    IF S = {} THEN {<<>>}
    ELSE LET top == {x \in S : \A y \in S : y.wins_above_replacement <= x.wins_above_replacement}
         IN UNION {{<<x>> \o t : t \in SortedByWar(S \ {x})} : x \in top}

AllWarResults(lw) == UNION {lw.position_results[p].player_wars : p \in DOMAIN lw.position_results}

\* PositionWAR.qualified_players
QualifiedWars(pos_result) == {w \in pos_result.player_wars : w.games_played >= 1}

\* _calculate_base_value_per_war, in 10^-3 dollars per win
CalculateBaseValuePerWar(war_results, budget, teams) ==
    LET positive == {w \in war_results : w.wins_above_replacement > 0}
        total_war == SumWar(positive)
        available_budget == budget * teams * 650
    IN  IF positive = {} THEN Milli
        ELSE IF total_war > 0 THEN (available_budget * Milli) \div total_war
        ELSE Milli

\* np.std(war_values): the population standard deviation, in 10^-3 wins
PopulationStd(S) ==
    LET n == Cardinality(S)
    IN ISqrt(n * SumSquaredWar(S) - SumWar(S) * SumWar(S)) \div n

ScarcityCap == 1800

\* variant: the multiplier without min(scarcity, 1.8)
AuctionScarcityOf_Uncapped(pos_result) ==
    IF pos_result.player_wars = {} THEN Milli
    ELSE IF Cardinality(QualifiedWars(pos_result)) < 2 THEN Milli
    ELSE
    LET qualified == QualifiedWars(pos_result)
        war_std == PopulationStd(qualified)
        war_max == CHOOSE m \in {w.wins_above_replacement : w \in qualified} :
                       \A w \in qualified : w.wins_above_replacement <= m
        dropoff_factor == IF war_max > 0 THEN war_max ELSE Milli
        starter_spots == pos_result.total_starter_spots
        denominator == Max(Cardinality(qualified), starter_spots)
    IN Milli + (((war_std * dropoff_factor) \div Milli) * starter_spots) \div (denominator * 10)

\* one position's multiplier in _calculate_positional_scarcity, in 10^-3
AuctionScarcityOf(pos_result) ==
    IF pos_result.player_wars = {} THEN Milli
    ELSE IF Cardinality(QualifiedWars(pos_result)) < 2 THEN Milli
    ELSE
    LET qualified == QualifiedWars(pos_result)
        war_std == PopulationStd(qualified)
        war_max == CHOOSE m \in {w.wins_above_replacement : w \in qualified} :
                       \A w \in qualified : w.wins_above_replacement <= m
        dropoff_factor == IF war_max > 0 THEN war_max ELSE Milli
        starter_spots == pos_result.total_starter_spots
        denominator == Max(Cardinality(qualified), starter_spots)
        scarcity == Milli + (((war_std * dropoff_factor) \div Milli) * starter_spots)
                                \div (denominator * 10)
    IN Min(scarcity, ScarcityCap)

AuctionPositionalScarcity(lw) ==
    [p \in DOMAIN lw.position_results |-> AuctionScarcityOf(lw.position_results[p])]

\* _calculate_rank_multiplier, in 10^-3
RankMultiplier(overall_rank) ==
    IF overall_rank <= 5 THEN 1300
    ELSE IF overall_rank <= 12 THEN 1200
    ELSE IF overall_rank <= 24 THEN 1100
    ELSE IF overall_rank <= 50 THEN 1000
    ELSE IF overall_rank <= 100 THEN 950
    ELSE 900

\* _get_position_rank: the first index of the player's id among the results of
\* the position (a sorted list, which the stable sort leaves as it is)
GetPositionRank(war_result, all_war_results) ==
    LET position_players ==
            SelectSeq(all_war_results, LAMBDA w : w.position = war_result.position)
        hits == {i \in DOMAIN position_players :
                    position_players[i].player_id = war_result.player_id}
    IN  IF hits = {} THEN Len(position_players) + 1
        ELSE CHOOSE i \in hits : \A j \in hits : i <= j

\* _calculate_draft_tier; the value in 10^-3 dollars
CalculateDraftTier(overall_rank, value, budget) ==
    IF overall_rank <= 12 /\ value >= budget * 250 THEN 1
    ELSE IF overall_rank <= 24 /\ value >= budget * 150 THEN 2
    ELSE IF overall_rank <= 50 /\ value >= budget * 80 THEN 3
    ELSE IF overall_rank <= 100 /\ value >= budget * 40 THEN 4
    ELSE 5

\* Python's round(x, 0) of a value in 10^-3: to the nearest whole, a tie to
\* the even one
RoundHalfEven(x) ==
    LET whole == x \div Milli
        frac == x % Milli
    IN  IF frac < 500 THEN whole * Milli
        ELSE IF frac > 500 THEN (whole + 1) * Milli
        ELSE IF whole % 2 = 0 THEN whole * Milli ELSE (whole + 1) * Milli

\* final_value after the floor at 1.0 and the cap at 60% of the budget
ClampValue(value, budget) == Min(Max(value, Milli), budget * 600)

\* _calculate_individual_auction_value
CalculateIndividualAuctionValue(war_result, base_value_per_war, position_multiplier, overall_rank, all_war_results, budget) ==
    IF war_result.wins_above_replacement <= 0 THEN None
    ELSE
    LET base_value == (war_result.wins_above_replacement * base_value_per_war) \div Milli
        position_adjusted_value == (base_value * position_multiplier) \div Milli
        rank_multiplier == RankMultiplier(overall_rank)
        final_value == ClampValue((position_adjusted_value * rank_multiplier) \div Milli, budget)
        position_rank == GetPositionRank(war_result, all_war_results)
    IN  [player_id |-> war_result.player_id,
         season |-> war_result.season,
         position |-> war_result.position,
         wins_above_replacement |-> war_result.wins_above_replacement,
         war_rank_overall |-> overall_rank,
         war_rank_position |-> position_rank,
         auction_value_dollars |-> RoundHalfEven(final_value),
         value_per_war |-> base_value_per_war,
         value_over_replacement |-> final_value - Milli,
         positional_scarcity_multiplier |-> position_multiplier,
         draft_tier |-> CalculateDraftTier(overall_rank, final_value, budget),
         is_sleeper |-> /\ war_result.wins_above_replacement > 500
                        /\ final_value < budget * 100
                        /\ position_rank > 10
                        /\ 20 * war_result.wins_above_replacement > final_value,
         is_bust_risk |-> /\ overall_rank <= 24
                          /\ final_value >= budget * 150
                          /\ 100 * war_result.wins_above_replacement < 3 * final_value,
         league_budget_total |-> budget]

\* the loop's test before a result is valued
IsSkipped(war_result) == war_result.wins_above_replacement <= 0

\* variant: only results of negative WAR are skipped
AuctionValuesOf_SkipsOnlyNegative(all_war_results, scarcity, budget, teams) ==
    LET base_value_per_war == CalculateBaseValuePerWar(SeqToSet(all_war_results), budget, teams)
        value(w, i) == CalculateIndividualAuctionValue(w, base_value_per_war,
                           scarcity[w.position], i, all_war_results, budget)
        valued == [i \in DOMAIN all_war_results |->
                     LET w == all_war_results[i]
                     IN  IF w.wins_above_replacement < 0 THEN None
                         ELSE IF w.wins_above_replacement = 0
                         THEN [value([w EXCEPT !.wins_above_replacement = 1], i)
                                  EXCEPT !.wins_above_replacement = 0]
                         ELSE value(w, i)]
    IN SelectSeq(valued, LAMBDA v : v # None)

\* the loop of calculate_league_auction_values over the sorted results
AuctionValuesOf(all_war_results, scarcity, budget, teams) ==
    LET base_value_per_war == CalculateBaseValuePerWar(SeqToSet(all_war_results), budget, teams)
        valued == [i \in DOMAIN all_war_results |->
                     IF IsSkipped(all_war_results[i]) THEN None
                     ELSE CalculateIndividualAuctionValue(all_war_results[i],
                              base_value_per_war, scarcity[all_war_results[i].position],
                              i, all_war_results, budget)]
    IN SelectSeq(valued, LAMBDA v : v # None)

CalculateLeagueAuctionValues ==
    /\ mode = "auction"
    /\ \E all_war_results \in SortedByWar(AllWarResults(league_war)) :
        LET scarcity == AuctionPositionalScarcity(league_war)
            values == AuctionValuesOf(all_war_results, scarcity, total_budget, MinTeams)
        IN  /\ auction_scarcity' = scarcity
            /\ auction_values' = values
            /\ total_auction_value' =
                   IF values = <<>> THEN total_auction_value ELSE SumDollars(values)
    /\ UNCHANGED <<mode, war_vars, league_war, total_budget, cache_vars, outer_vars>>


(***************************************************************************)
(* CacheManager (data/cache.py)                                            *)
(*                                                                         *)
(* The backing store maps a key to Missing or to an entry [value, expired];*)
(* an entry whose time to live has run out stays in the store, unreadable, *)
(* until it is culled or overwritten.  Every call into the backing store   *)
(* either succeeds or raises; a write that raises leaves the store as it   *)
(* was.  `raised` in a call's outcome says whether an exception reached    *)
(* the caller of the cache manager.                                        *)
(***************************************************************************)
Keys == {"k1", "k2"}

\* the values functions return and callers store; None is Python's None
Values == {[value |-> 1], [value |-> 2]}

Missing == [missing |-> TRUE]

\* patterns handed to invalidate_pattern, by the keys that contain them
Patterns == {"k", "1", "2", "x"}

\* pattern in str(key)
Matches(pattern, key) ==
    \/ pattern = "k"
    \/ pattern = "1" /\ key = "k1"
    \/ pattern = "2" /\ key = "k2"

EmptyStore == [k \in Keys |-> Missing]

Present(store) == {k \in Keys : store[k] # Missing}

\* diskcache Cache.get(key): the default None for a missing or expired key
StoreGet(store, key) ==
    IF store[key] = Missing THEN None
    ELSE IF store[key].expired THEN None
    ELSE store[key].value

\* variant: get without the except clause
CacheGet_Propagates(store, key, en, fails) ==
    IF ~en THEN [result |-> None, raised |-> FALSE]
    ELSE IF fails THEN [result |-> None, raised |-> TRUE]
    ELSE [result |-> StoreGet(store, key), raised |-> FALSE]

\* CacheManager.get
CacheGet(store, key, en, fails) ==
    IF ~en THEN [result |-> None, raised |-> FALSE]
    ELSE IF fails THEN [result |-> None, raised |-> FALSE]
    ELSE [result |-> StoreGet(store, key), raised |-> FALSE]

\* variant: set without the test of settings.cache.enabled
CacheSet_IgnoresEnabled(store, key, value, en, fails) ==
    IF fails THEN [ok |-> FALSE, store |-> store, raised |-> FALSE]
    ELSE [ok |-> TRUE, raised |-> FALSE,
          store |-> [store EXCEPT ![key] = [value |-> value, expired |-> FALSE]]]

\* CacheManager.set
CacheSet(store, key, value, en, fails) ==
    IF ~en THEN [ok |-> FALSE, store |-> store, raised |-> FALSE]
    ELSE IF fails THEN [ok |-> FALSE, store |-> store, raised |-> FALSE]
    ELSE [ok |-> TRUE, raised |-> FALSE,
          store |-> [store EXCEPT ![key] = [value |-> value, expired |-> FALSE]]]

\* variant: the computed result is not written to the store
CachedCallOf_NeverStores(store, key, computed, en, get_fails, set_fails) ==
    LET got == CacheGet(store, key, en, get_fails)
    IN  IF got.raised
        THEN [result |-> None, invoked |-> FALSE, store |-> store, raised |-> TRUE]
        ELSE IF got.result # None
        THEN [result |-> got.result, invoked |-> FALSE, store |-> store, raised |-> FALSE]
        ELSE [result |-> computed, invoked |-> TRUE, store |-> store, raised |-> FALSE]

\* CacheManager.cached_call; computed is what func returns if it is invoked
CachedCallOf(store, key, computed, en, get_fails, set_fails) ==
    LET got == CacheGet(store, key, en, get_fails)
    IN  IF got.raised
        THEN [result |-> None, invoked |-> FALSE, store |-> store, raised |-> TRUE]
        ELSE IF got.result # None
        THEN [result |-> got.result, invoked |-> FALSE, store |-> store, raised |-> FALSE]
        ELSE LET stored == IF computed # None
                           THEN CacheSet(store, key, computed, en, set_fails)
                           ELSE [ok |-> FALSE, store |-> store, raised |-> FALSE]
             IN  [result |-> computed, invoked |-> TRUE, store |-> stored.store,
                  raised |-> stored.raised]

\* what the caller of the latest call saw; fields a call does not have keep
\* the values below
NoCall ==
    [op |-> "none", key |-> "", enabled |-> TRUE, fails |-> FALSE, invoked |-> FALSE,
     computed |-> None, result |-> None, ok |-> FALSE, count |-> 0, raised |-> FALSE]

\* settings.cache.enabled = cache_enabled
SetEnabled ==
    /\ mode = "cache"
    /\ \E b \in BOOLEAN :
        /\ enabled' = b
        /\ last' = [NoCall EXCEPT !.op = "set_enabled", !.enabled = b]
    /\ prev_call' = NotCalled
    /\ UNCHANGED <<mode, war_vars, auction_vars, outer_vars, cache>>

\* time passes: the time to live of an entry runs out
Expire ==
    /\ mode = "cache"
    /\ \E k \in Present(cache) :
        /\ ~cache[k].expired
        /\ cache' = [cache EXCEPT ![k].expired = TRUE]
    /\ last' = [NoCall EXCEPT !.op = "expire", !.enabled = enabled]
    /\ prev_call' = NotCalled
    /\ UNCHANGED <<mode, war_vars, auction_vars, outer_vars, enabled>>

Get ==
    /\ mode = "cache"
    /\ \E key \in Keys, fails \in BOOLEAN :
        LET out == CacheGet(cache, key, enabled, fails)
        IN  last' = [NoCall EXCEPT !.op = "get", !.key = key, !.enabled = enabled,
                                   !.fails = enabled /\ fails,
                                   !.result = out.result, !.raised = out.raised]
    /\ prev_call' = NotCalled
    /\ UNCHANGED <<mode, war_vars, auction_vars, outer_vars, enabled, cache>>

Set ==
    /\ mode = "cache"
    /\ \E key \in Keys, value \in Values \cup {None}, fails \in BOOLEAN :
        LET out == CacheSet(cache, key, value, enabled, fails)
        IN  /\ cache' = out.store
            /\ last' = [NoCall EXCEPT !.op = "set", !.key = key, !.enabled = enabled,
                                      !.fails = enabled /\ fails,
                                      !.ok = out.ok, !.raised = out.raised]
    /\ prev_call' = NotCalled
    /\ UNCHANGED <<mode, war_vars, auction_vars, outer_vars, enabled>>

\* cached_call(func, *args): key stands for the function and its arguments
CachedCall ==
    /\ mode = "cache"
    /\ \E key \in Keys, computed \in Values \cup {None},
          get_fails \in BOOLEAN, set_fails \in BOOLEAN :
        LET out == CachedCallOf(cache, key, computed, enabled, get_fails, set_fails)
            wrote == out.invoked /\ computed # None
        IN  /\ cache' = out.store
            /\ last' = [NoCall EXCEPT !.op = "cached_call", !.key = key,
                                      !.enabled = enabled,
                                      !.fails = enabled /\ (get_fails \/ (wrote /\ set_fails)),
                                      !.invoked = out.invoked,
                                      !.computed = IF out.invoked THEN computed ELSE None,
                                      !.result = out.result, !.raised = out.raised]
            /\ prev_call' = IF last.op = "cached_call" THEN last ELSE NotCalled
    /\ UNCHANGED <<mode, war_vars, auction_vars, outer_vars, enabled>>

\* invalidate_pattern: the keys are deleted one by one; a raise ends the loop
\* with the deletions made so far counted
InvalidatePattern ==
    /\ mode = "cache"
    /\ \E pattern \in Patterns, fails \in BOOLEAN :
        LET matching == {k \in Present(cache) : Matches(pattern, k)}
        IN  \E deleted \in SUBSET matching :
            /\ fails \/ deleted = matching
            /\ fails => deleted # matching \/ matching = {}
            /\ cache' = [k \in Keys |-> IF k \in deleted THEN Missing ELSE cache[k]]
            /\ last' = [NoCall EXCEPT !.op = "invalidate_pattern", !.enabled = enabled,
                                      !.fails = fails, !.count = Cardinality(deleted)]
    /\ prev_call' = NotCalled
    /\ UNCHANGED <<mode, war_vars, auction_vars, outer_vars, enabled>>

\* clear_expired: cull() removes the expired entries and returns their number
ClearExpired ==
    /\ mode = "cache"
    /\ \E fails \in BOOLEAN :
        LET expired == {k \in Present(cache) : cache[k].expired}
        IN  /\ cache' = IF fails THEN cache
                        ELSE [k \in Keys |-> IF k \in expired THEN Missing ELSE cache[k]]
            /\ last' = [NoCall EXCEPT !.op = "clear_expired", !.enabled = enabled,
                                      !.fails = fails,
                                      !.count = IF fails THEN 0 ELSE Cardinality(expired)]
    /\ prev_call' = NotCalled
    /\ UNCHANGED <<mode, war_vars, auction_vars, outer_vars, enabled>>

ClearAll ==
    /\ mode = "cache"
    /\ \E fails \in BOOLEAN :
        /\ cache' = IF fails THEN cache ELSE EmptyStore
        /\ last' = [NoCall EXCEPT !.op = "clear_all", !.enabled = enabled,
                                  !.fails = fails, !.ok = ~fails]
    /\ prev_call' = NotCalled
    /\ UNCHANGED <<mode, war_vars, auction_vars, outer_vars, enabled>>

\* get_stats: the dict's count, or {} (count 0, ok FALSE) when the store raises
GetStats ==
    /\ mode = "cache"
    /\ \E fails \in BOOLEAN :
        last' = [NoCall EXCEPT !.op = "get_stats", !.enabled = enabled, !.fails = fails,
                               !.ok = ~fails,
                               !.count = IF fails THEN 0 ELSE Cardinality(Present(cache))]
    /\ prev_call' = NotCalled
    /\ UNCHANGED <<mode, war_vars, auction_vars, outer_vars, enabled, cache>>

(***************************************************************************)
(* data.loaders: NFLDataLoader                                             *)
(***************************************************************************)
\* the years every modelled load_* call asks for
LoaderYears == (Season - MaxYears + 1)..Season

YearOutcomes == {"rows", "empty", "fails"}

CallOutcomes == {"rows", "fails"}

\* the settings, which of the two libraries import, whether importr loads the
\* R packages, and what each source call gives when it is made
LoaderEnvs ==
    [ settings_use_nfl_data_py : BOOLEAN, settings_use_rpy2_fallback : BOOLEAN,
      NFL_DATA_PY_AVAILABLE : BOOLEAN, RPI2_AVAILABLE : BOOLEAN,
      r_packages_load : BOOLEAN,
      import_pbp_data : [LoaderYears -> YearOutcomes],
      import_weekly_data : CallOutcomes,
      load_pbp : CallOutcomes,
      calculate_stats : CallOutcomes ]

\* the positions a source's player rows carry before any normalisation
RawPositions == {"QB", "K", "OLB", "DB", "SS", "FS"}

IdpPositions == {"DT", "DE", "LB", "CB", "S"}

Frame(rows) == [rows |-> rows]

PbpRows(years) == {[season |-> y] : y \in years}

StatsRows(years) == {[season |-> y, position |-> p] : y \in years, p \in RawPositions}

Seasons(frame) == {row.season : row \in frame.rows}

\* load_idp_stats' position mapping
IdpPosition(p) ==
    CASE p \in {"DT", "NT"} -> "DT"
      [] p \in {"DE", "EDGE"} -> "DE"
      [] p = "OLB" -> "DE"
      [] p \in {"ILB", "MLB", "LB"} -> "LB"
      [] p \in {"CB", "DB"} -> "CB"
      [] p \in {"S", "SS", "FS", "SAF"} -> "S"
      [] OTHER -> p

\* _calculate_stats_r's position mapping
NormalizePosition(p) == IF IdpPosition(p) # p THEN IdpPosition(p) ELSE IF p = "K" THEN "PK" ELSE p

FilterPositions(result, positions) ==
    IF result = Raise THEN Raise
    ELSE Frame({row \in result.rows : row.position \in positions})

EmptyLoaderCache ==
    [pbp_data |-> Missing, player_stats |-> Missing, player_stats_with_idp |-> Missing, idp_stats |-> Missing]

SourceOut(result, trace) == [result |-> result, trace |-> trace]

LoaderOut(result, trace, c) == [result |-> result, trace |-> trace, cache |-> c]

\* cache_manager.set(cache_key, ...) after a load that did not raise
Cached(c, key, result) == IF result = Raise THEN c ELSE [c EXCEPT ![key] = result]

\* _init_r_packages: a failing importr clears the flag and raises nothing
InitRPackages(use_rpy2_fallback, env) == use_rpy2_fallback /\ env.r_packages_load

NFLDataLoaderInit(env) ==
    LET use_nfl_data_py == env.settings_use_nfl_data_py /\ env.NFL_DATA_PY_AVAILABLE
        use_rpy2_fallback == env.settings_use_rpy2_fallback /\ env.RPI2_AVAILABLE
    IN  IF ~use_nfl_data_py /\ ~use_rpy2_fallback
        THEN [raised |-> TRUE, use_nfl_data_py |-> FALSE, use_rpy2_fallback |-> FALSE]
        ELSE [raised |-> FALSE, use_nfl_data_py |-> use_nfl_data_py,
              use_rpy2_fallback |-> InitRPackages(use_rpy2_fallback, env)]

Repeat(n, x) == [k \in 1..n |-> x]

\* variant: the first year whose import raises ends the load
LoadPbpNflDataPy_StopsAtFailure(env) ==
    LET failed == {y \in LoaderYears : env.import_pbp_data[y] = "fails"}
        successful_years == {y \in LoaderYears : env.import_pbp_data[y] = "rows"}
    IN  IF failed # {} \/ successful_years = {}
        THEN SourceOut(Raise, Repeat(Cardinality(LoaderYears), "import_pbp_data"))
        ELSE SourceOut(Frame(PbpRows(successful_years)), Repeat(Cardinality(LoaderYears), "import_pbp_data"))

\* _load_pbp_nfl_data_py: one import per year, the years with rows kept
LoadPbpNflDataPy(env) ==
    LET successful_years == {y \in LoaderYears : env.import_pbp_data[y] = "rows"}
    IN  IF successful_years = {}
        THEN SourceOut(Raise, Repeat(Cardinality(LoaderYears), "import_pbp_data"))
        ELSE SourceOut(Frame(PbpRows(successful_years)), Repeat(Cardinality(LoaderYears), "import_pbp_data"))

LoadPbpR(l, env) ==
    IF ~l.use_rpy2_fallback THEN SourceOut(Raise, <<>>)
    ELSE IF env.load_pbp = "rows" THEN SourceOut(Frame(PbpRows(LoaderYears)), <<"load_pbp">>)
    ELSE SourceOut(Raise, <<"load_pbp">>)

LoadPbpData(l, env, c) ==
    IF c.pbp_data # Missing THEN LoaderOut(c.pbp_data, <<>>, c)
    ELSE LET primary == LoadPbpNflDataPy(env)
             interop == LoadPbpR(l, env)
             out == IF l.use_nfl_data_py
                    THEN IF primary.result # Raise THEN primary
                         ELSE IF l.use_rpy2_fallback
                              THEN SourceOut(interop.result, primary.trace \o interop.trace)
                              ELSE primary
                    ELSE interop
         IN  LoaderOut(out.result, out.trace, Cached(c, "pbp_data", out.result))

\* _calculate_stats_nfl_data_py with weekly=True, on the seasons of the pbp frame
CalculateStatsNflDataPy(pbp_data, env) ==
    IF env.import_weekly_data = "rows"
    THEN SourceOut(Frame(StatsRows(Seasons(pbp_data))), Repeat(Cardinality(Seasons(pbp_data)), "import_weekly_data"))
    ELSE SourceOut(Raise, Repeat(Cardinality(Seasons(pbp_data)), "import_weekly_data"))

CalculateStatsR(l, pbp_data, env) ==
    IF ~l.use_rpy2_fallback THEN SourceOut(Raise, <<>>)
    ELSE IF env.calculate_stats = "rows"
    THEN SourceOut(Frame({[row EXCEPT !.position = NormalizePosition(row.position)] : row \in StatsRows(Seasons(pbp_data))}), <<"calculate_stats">>)
    ELSE SourceOut(Raise, <<"calculate_stats">>)

StatsKey(include_idp) == IF include_idp THEN "player_stats_with_idp" ELSE "player_stats"

\* variant: the primary library's import is tried before the interop source
LoadPlayerStats_PrimaryFirst(l, env, c, include_idp) ==
    IF c[StatsKey(include_idp)] # Missing THEN LoaderOut(c[StatsKey(include_idp)], <<>>, c)
    ELSE LET pbp == LoadPbpData(l, env, c)
         IN  IF pbp.result = Raise THEN pbp
             ELSE LET interop == CalculateStatsR(l, pbp.result, env)
                      primary == CalculateStatsNflDataPy(pbp.result, env)
                      out == IF l.use_nfl_data_py
                             THEN IF primary.result # Raise THEN primary
                                  ELSE IF l.use_rpy2_fallback
                                       THEN SourceOut(interop.result, primary.trace \o interop.trace)
                                       ELSE primary
                             ELSE interop
                  IN  LoaderOut(out.result, pbp.trace \o out.trace,
                                Cached(pbp.cache, StatsKey(include_idp), out.result))

LoadPlayerStats(l, env, c, include_idp) ==
    IF c[StatsKey(include_idp)] # Missing THEN LoaderOut(c[StatsKey(include_idp)], <<>>, c)
    ELSE LET pbp == LoadPbpData(l, env, c)
         IN  IF pbp.result = Raise THEN pbp
             ELSE LET interop == CalculateStatsR(l, pbp.result, env)
                      primary == CalculateStatsNflDataPy(pbp.result, env)
                      out == IF l.use_rpy2_fallback
                             THEN IF interop.result # Raise THEN interop
                                  ELSE IF l.use_nfl_data_py
                                       THEN SourceOut(primary.result, interop.trace \o primary.trace)
                                       ELSE interop
                             ELSE IF l.use_nfl_data_py THEN primary
                             ELSE SourceOut(Raise, <<>>)
                  IN  LoaderOut(out.result, pbp.trace \o out.trace,
                                Cached(pbp.cache, StatsKey(include_idp), out.result))

LoadIdpStats(l, env, c) ==
    IF c.idp_stats # Missing THEN LoaderOut(c.idp_stats, <<>>, c)
    ELSE IF ~l.use_rpy2_fallback
    THEN LET basic_stats == LoadPlayerStats(l, env, c, FALSE)
         IN  LoaderOut(FilterPositions(basic_stats.result, {"CB", "S", "SS", "FS", "LB", "DE", "DT"}),
                       basic_stats.trace, basic_stats.cache)
    ELSE IF env.calculate_stats = "rows"
    THEN LET idp_df == Frame({row \in {[r EXCEPT !.position = IdpPosition(r.position)] : r \in StatsRows(LoaderYears)} : row.position \in IdpPositions})
         IN  LoaderOut(idp_df, <<"calculate_stats">>, Cached(c, "idp_stats", idp_df))
    ELSE LET basic_stats == LoadPlayerStats(l, env, c, FALSE)
         IN  LoaderOut(FilterPositions(basic_stats.result, {"CB", "S", "SS", "FS"}),
                       <<"calculate_stats">> \o basic_stats.trace, basic_stats.cache)

LoaderCall(op, hit, out) == [op |-> op, hit |-> hit, trace |-> out.trace, result |-> out.result]

Constructed == loader # NotCalled /\ ~loader.raised

\* NFLDataLoader()
Construct ==
    /\ mode = "loader"
    /\ loader' = NFLDataLoaderInit(loader_env)
    /\ UNCHANGED <<mode, war_vars, auction_vars, cache_vars, win_prob_calls, weeks_call, cli_call, loader_env, loader_cache, loader_call, rest_vars>>

LoadPbpDataCall ==
    /\ mode = "loader"
    /\ Constructed
    /\ LET out == LoadPbpData(loader, loader_env, loader_cache)
       IN  /\ loader_call' = LoaderCall("load_pbp_data", loader_cache.pbp_data # Missing, out)
           /\ loader_cache' = out.cache
    /\ UNCHANGED <<mode, war_vars, auction_vars, cache_vars, win_prob_calls, weeks_call, cli_call, loader_env, loader, rest_vars>>

LoadPlayerStatsCall ==
    /\ mode = "loader"
    /\ Constructed
    /\ \E include_idp \in BOOLEAN :
        LET out == LoadPlayerStats(loader, loader_env, loader_cache, include_idp)
        IN  /\ loader_call' = LoaderCall("load_player_stats", loader_cache[StatsKey(include_idp)] # Missing, out)
            /\ loader_cache' = out.cache
    /\ UNCHANGED <<mode, war_vars, auction_vars, cache_vars, win_prob_calls, weeks_call, cli_call, loader_env, loader, rest_vars>>

LoadIdpStatsCall ==
    /\ mode = "loader"
    /\ Constructed
    /\ LET out == LoadIdpStats(loader, loader_env, loader_cache)
       IN  /\ loader_call' = LoaderCall("load_idp_stats", loader_cache.idp_stats # Missing, out)
           /\ loader_cache' = out.cache
    /\ UNCHANGED <<mode, war_vars, auction_vars, cache_vars, win_prob_calls, weeks_call, cli_call, loader_env, loader, rest_vars>>

(***************************************************************************)
(* data.loaders: the cache keys of the load_* methods                      *)
(***************************************************************************)
\* the years a request may name; a request's year list is taken as a set
KeyYears == (Season - MaxYears)..Season

YearLists == (SUBSET KeyYears) \ {{}}

MinYear(years) == CHOOSE y \in years : \A z \in years : y <= z

MaxYear(years) == CHOOSE y \in years : \A z \in years : y >= z

\* f"{prefix}_{min(years)}_{max(years)}", the prefix with the default
\* weekly / "weekly" argument
CacheKey(prefix, years) == [prefix |-> prefix, min |-> MinYear(years), max |-> MaxYear(years)]

StatsPrefix(include_idp) == IF include_idp THEN "player_stats_weekly_with_idp" ELSE "player_stats_weekly"

KeyedHit(store, key) == \E e \in store : e.key = key

KeyedGet(store, key) == CHOOSE e \in store : e.key = key

KeyedSet(store, key, years) == {e \in store : e.key # key} \cup {[key |-> key, years |-> years]}

KeyedOut(store, hit, loaded_for, raised) == [store |-> store, hit |-> hit, loaded_for |-> loaded_for, raised |-> raised]

\* a method with no nested load: the entry under the key, else the source
\* asked for the years of the request, its result stored under the key
KeyedLeaf(store, prefix, years, loads) ==
    LET key == CacheKey(prefix, years)
    IN  IF KeyedHit(store, key) THEN KeyedOut(store, TRUE, KeyedGet(store, key).years, FALSE)
        ELSE IF loads THEN KeyedOut(KeyedSet(store, key, years), FALSE, years, FALSE)
        ELSE KeyedOut(store, FALSE, {}, TRUE)

\* a method that works on what load_pbp_data(years) gave: the seasons of its
\* result are those of that frame
KeyedOnPbp(store, prefix, years, loads) ==
    LET key == CacheKey(prefix, years)
        pbp == KeyedLeaf(store, "pbp_data", years, loads)
    IN  IF KeyedHit(store, key) THEN KeyedOut(store, TRUE, KeyedGet(store, key).years, FALSE)
        ELSE IF pbp.raised THEN pbp
        ELSE IF loads THEN KeyedOut(KeyedSet(pbp.store, key, pbp.loaded_for), FALSE, pbp.loaded_for, FALSE)
        ELSE KeyedOut(pbp.store, FALSE, {}, TRUE)

KeyedFfOpportunity(store, years, interop, loads) ==
    IF interop THEN KeyedLeaf(store, "ff_opportunity_weekly", years, loads)
    ELSE KeyedOnPbp(store, "ff_opportunity_weekly", years, loads)

KeyedIdpStats(store, years, interop, loads) ==
    LET key == CacheKey("idp_stats_weekly", years)
        basic_stats == KeyedOnPbp(store, StatsPrefix(FALSE), years, loads)
    IN  IF KeyedHit(store, key) THEN KeyedOut(store, TRUE, KeyedGet(store, key).years, FALSE)
        ELSE IF interop /\ loads THEN KeyedOut(KeyedSet(store, key, years), FALSE, years, FALSE)
        ELSE [basic_stats EXCEPT !.hit = FALSE]

KeyedCall(op, years, out) == [op |-> op, years |-> years, hit |-> out.hit, loaded_for |-> out.loaded_for, raised |-> out.raised]

KeyedLoadPbpData ==
    /\ mode = "loader_keys"
    /\ \E years \in YearLists, loads \in BOOLEAN :
        LET out == KeyedLeaf(key_store, "pbp_data", years, loads)
        IN  /\ Cardinality(out.store) <= MaxCacheEntries
            /\ key_store' = out.store
            /\ key_call' = KeyedCall("load_pbp_data", years, out)
    /\ UNCHANGED <<mode, war_vars, auction_vars, cache_vars, win_prob_calls, weeks_call, cli_call, loader_vars, pure_call>>

KeyedLoadPlayerStats ==
    /\ mode = "loader_keys"
    /\ \E years \in YearLists, include_idp \in BOOLEAN, loads \in BOOLEAN :
        LET out == KeyedOnPbp(key_store, StatsPrefix(include_idp), years, loads)
        IN  /\ Cardinality(out.store) <= MaxCacheEntries
            /\ key_store' = out.store
            /\ key_call' = KeyedCall("load_player_stats", years, out)
    /\ UNCHANGED <<mode, war_vars, auction_vars, cache_vars, win_prob_calls, weeks_call, cli_call, loader_vars, pure_call>>

KeyedLoadRosterData ==
    /\ mode = "loader_keys"
    /\ \E years \in YearLists, loads \in BOOLEAN :
        LET out == KeyedLeaf(key_store, "roster_data", years, loads)
        IN  /\ Cardinality(out.store) <= MaxCacheEntries
            /\ key_store' = out.store
            /\ key_call' = KeyedCall("load_roster_data", years, out)
    /\ UNCHANGED <<mode, war_vars, auction_vars, cache_vars, win_prob_calls, weeks_call, cli_call, loader_vars, pure_call>>

KeyedLoadFfOpportunity ==
    /\ mode = "loader_keys"
    /\ \E years \in YearLists, interop \in BOOLEAN, loads \in BOOLEAN :
        LET out == KeyedFfOpportunity(key_store, years, interop, loads)
        IN  /\ Cardinality(out.store) <= MaxCacheEntries
            /\ key_store' = out.store
            /\ key_call' = KeyedCall("load_ff_opportunity", years, out)
    /\ UNCHANGED <<mode, war_vars, auction_vars, cache_vars, win_prob_calls, weeks_call, cli_call, loader_vars, pure_call>>

KeyedLoadIdpStats ==
    /\ mode = "loader_keys"
    /\ \E years \in YearLists, interop \in BOOLEAN, loads \in BOOLEAN :
        LET out == KeyedIdpStats(key_store, years, interop, loads)
        IN  /\ Cardinality(out.store) <= MaxCacheEntries
            /\ key_store' = out.store
            /\ key_call' = KeyedCall("load_idp_stats", years, out)
    /\ UNCHANGED <<mode, war_vars, auction_vars, cache_vars, win_prob_calls, weeks_call, cli_call, loader_vars, pure_call>>

(***************************************************************************)
(* ReplacementLevelCalculator.find_flex_replacement_level                  *)
(***************************************************************************)
FlexPositions == {Position, "RB"}

FlexSpots == {1, 2, 3}

\* the ids of a position's dedicated starters: the head of the position's rows
\* in one of the orders the sort may give
PositionStarters(stats_df, position, cfg) ==
    IF MaxReq(cfg, position) = 0 THEN {{}}
    ELSE {{r.player_id : r \in SeqToSet(HeadN(order, cfg.teams * MaxReq(cfg, position)))}
          : order \in SortedByTotal({r \in stats_df : r.position = position})}

UsedPlayers(stats_df, cfg) ==
    {qb \cup rb : qb \in PositionStarters(stats_df, Position, cfg), rb \in PositionStarters(stats_df, "RB", cfg)}

\* the sorted frames of flex-eligible rows, one per choice the sorts leave open
FlexEligible(stats_df, cfg) ==
    UNION {SortedByTotal({r \in stats_df : /\ r.position \in FlexPositions
                                            /\ r.player_id \notin used
                                            /\ r.games_played >= cfg.minimum_games_played})
           : used \in UsedPlayers(stats_df, cfg)}

FlexReplacementRank(flex_eligible, flex_spots) ==
    IF Len(flex_eligible) < flex_spots THEN Len(flex_eligible) ELSE flex_spots

\* on one sorted frame: None without a row at the rank; otherwise the record
\* is built and the closing log line formats replacement_info, a name the
\* function never binds, so the call ends in a NameError
FindFlexReplacementLevel(flex_eligible, flex_spots) ==
    IF FlexReplacementRank(flex_eligible, flex_spots) \notin DOMAIN flex_eligible THEN None
    ELSE Raise

FindFlexReplacementLevelCall ==
    /\ mode = "flex"
    /\ \E flex_eligible \in FlexEligible(pure_call.stats_df, pure_call.league_config) :
        pure_call' = [pure_call EXCEPT !.result = FindFlexReplacementLevel(flex_eligible, pure_call.flex_spots)]
    /\ UNCHANGED <<mode, war_vars, auction_vars, cache_vars, win_prob_calls, weeks_call, cli_call, loader_vars, key_vars>>

(***************************************************************************)
(* StatsProcessor.calculate_positional_rankings                            *)
(***************************************************************************)
RankTotals == {1, 5}

\* season frames of up to MaxRankRows players over two seasons and two positions
RankFrames ==
    UNION {{ {[player_id |-> p, season |-> f[p].season, position |-> f[p].position,
               total_fantasy_points_mppr |-> f[p].total] : p \in 1..n}
             : f \in [1..n -> [season : {Season - 1, Season}, position : {Position, "RB"}, total : RankTotals]] }
           : n \in 1..MaxRankRows}

\* rank(method="average", descending=True) of a row among the rows of S, as a
\* fraction: the mean of the places its tied rows take
AverageRank(row, S) ==
    [num |-> 2 * Cardinality({r \in S : r.total_fantasy_points_mppr > row.total_fantasy_points_mppr})
             + Cardinality({r \in S : r.total_fantasy_points_mppr = row.total_fantasy_points_mppr}) + 1,
     den |-> 2]

\* pl.len().over(keys): the row count of the row's group
SeasonRows(row, df) == {r \in df : r.season = row.season}

SeasonPositionRows(row, df) == {r \in df : r.season = row.season /\ r.position = row.position}

Divide(rank, count) == [num |-> rank.num, den |-> rank.den * count]

\* the two percentile expressions are written rank(...) / pl.len().over(...):
\* over() applies to pl.len() alone, so the rank is taken over the whole frame
\* and only the divisor is per group.  The ordinal rank columns are left out.
PositionalRankingsOf(stats_df) ==
    [rows |-> {[player_id |-> row.player_id, season |-> row.season, position |-> row.position,
                total_fantasy_points_mppr |-> row.total_fantasy_points_mppr,
                percentile_overall |-> Divide(AverageRank(row, stats_df), Cardinality(SeasonRows(row, stats_df))),
                percentile_position |-> Divide(AverageRank(row, stats_df), Cardinality(SeasonPositionRows(row, stats_df)))]
               : row \in stats_df}]

\* alias() too applies to the divisor alone: where the frame library names a
\* quotient after its left operand, both percentile expressions are named
\* total_fantasy_points_mppr and with_columns raises on the duplicate
CalculatePositionalRankings ==
    /\ mode = "rankings"
    /\ \E duplicate_raises \in BOOLEAN :
        pure_call' = [pure_call EXCEPT !.result =
            IF duplicate_raises THEN Raise ELSE PositionalRankingsOf(pure_call.stats_df)]
    /\ UNCHANGED <<mode, war_vars, auction_vars, cache_vars, win_prob_calls, weeks_call, cli_call, loader_vars, key_vars>>

(***************************************************************************)
(* Defensive and punting fantasy points: FantasyPointsCalculator and       *)
(* StatsProcessor, in thousandths of a point                               *)
(***************************************************************************)
DefensivePositions == {"DT", "DE", "LB", "CB", "S"}

\* config.scoring.DefensiveScoring
DefensiveScoring ==
    [fumbles_on_defense |-> -4000, fumble_recoveries |-> 5000, fumble_recovery_yards |-> 150,
     forced_fumbles |-> 6000, interceptions |-> 6000, interception_yards |-> 150,
     blocked_fg_tds |-> 6000, blocked_fgs |-> 5000, blocked_punt_tds |-> 6000, blocked_punts |-> 7000,
     blocked_extra_points |-> 2000, sacks |-> -500, sack_yards |-> 200, qb_hits |-> 1000,
     tackles_for_loss |-> 2000, safeties |-> 2000, defensive_tds |-> 5000, defensive_conversions |-> 8000,
     safeties_1pt |-> 4000, own_fumble_recoveries |-> 4000, own_fumble_recovery_yards |-> 150,
     dt_tackles |-> 2500, dt_assists |-> 1500, dt_passes_defended |-> 3000,
     de_tackles |-> 2000, de_assists |-> 1000, de_passes_defended |-> 3000,
     lb_tackles |-> 1000, lb_assists |-> 500, lb_passes_defended |-> 3000,
     cb_tackles |-> 1000, cb_assists |-> 1000, cb_passes_defended |-> 4000,
     s_tackles |-> 1000, s_assists |-> 500, s_passes_defended |-> 4000]

\* config.scoring.PuntingScoring
PuntingScoring ==
    [punts |-> -6750, punt_yards |-> 150, punts_inside_20 |-> 2000, punts_blocked |-> -8000,
     fumbles_special_teams |-> -6000]

\* the statistics calculate_defensive_points reads from its dictionary
DefensiveStatNames ==
    {"forced_fumbles", "fumble_recoveries", "fumble_recovery_yards", "interceptions", "interception_yards",
     "sacks", "sack_yards", "qb_hits", "tackles_for_loss", "safeties", "defensive_tds",
     "defensive_conversions", "safeties_1pt", "blocked_fgs", "blocked_punts", "blocked_extra_points",
     "blocked_fg_tds", "blocked_punt_tds", "fumbles_on_defense", "own_fumble_recoveries",
     "own_fumble_recovery_yards", "tackles", "assists", "passes_defended"}

\* stat assignments with at most two statistics different from zero
DefensiveStats ==
    {[n \in DefensiveStatNames |-> IF n = a THEN x ELSE IF n = b THEN y ELSE 0]
        : a \in DefensiveStatNames, b \in DefensiveStatNames, x \in 0..MaxStatValue, y \in 0..MaxStatValue}

\* stats.get(name, 0)
StatsGet(stats, name) == IF name \in DOMAIN stats THEN stats[name] ELSE 0

\* the per-position tackle, assist and pass-defended coefficients
PositionScoring(position) ==
    CASE position = "DT" -> [tackles |-> DefensiveScoring.dt_tackles, assists |-> DefensiveScoring.dt_assists, passes_defended |-> DefensiveScoring.dt_passes_defended]
      [] position = "DE" -> [tackles |-> DefensiveScoring.de_tackles, assists |-> DefensiveScoring.de_assists, passes_defended |-> DefensiveScoring.de_passes_defended]
      [] position = "LB" -> [tackles |-> DefensiveScoring.lb_tackles, assists |-> DefensiveScoring.lb_assists, passes_defended |-> DefensiveScoring.lb_passes_defended]
      [] position = "CB" -> [tackles |-> DefensiveScoring.cb_tackles, assists |-> DefensiveScoring.cb_assists, passes_defended |-> DefensiveScoring.cb_passes_defended]
      [] position = "S" -> [tackles |-> DefensiveScoring.s_tackles, assists |-> DefensiveScoring.s_assists, passes_defended |-> DefensiveScoring.s_passes_defended]
      [] OTHER -> [tackles |-> 0, assists |-> 0, passes_defended |-> 0]

PositionPoints(stats, position) ==
    StatsGet(stats, "tackles") * PositionScoring(position).tackles
    + StatsGet(stats, "assists") * PositionScoring(position).assists
    + StatsGet(stats, "passes_defended") * PositionScoring(position).passes_defended

\* FantasyPointsCalculator.calculate_defensive_points
CalculateDefensivePoints(stats, position) ==
    IF position \notin DefensivePositions THEN 0
    ELSE StatsGet(stats, "forced_fumbles") * DefensiveScoring.forced_fumbles
         + StatsGet(stats, "fumble_recoveries") * DefensiveScoring.fumble_recoveries
         + StatsGet(stats, "fumble_recovery_yards") * DefensiveScoring.fumble_recovery_yards
         + StatsGet(stats, "interceptions") * DefensiveScoring.interceptions
         + StatsGet(stats, "interception_yards") * DefensiveScoring.interception_yards
         + StatsGet(stats, "sacks") * DefensiveScoring.sacks
         + StatsGet(stats, "sack_yards") * DefensiveScoring.sack_yards
         + StatsGet(stats, "qb_hits") * DefensiveScoring.qb_hits
         + StatsGet(stats, "tackles_for_loss") * DefensiveScoring.tackles_for_loss
         + StatsGet(stats, "safeties") * DefensiveScoring.safeties
         + StatsGet(stats, "defensive_tds") * DefensiveScoring.defensive_tds
         + StatsGet(stats, "defensive_conversions") * DefensiveScoring.defensive_conversions
         + StatsGet(stats, "safeties_1pt") * DefensiveScoring.safeties_1pt
         + StatsGet(stats, "blocked_fgs") * DefensiveScoring.blocked_fgs
         + StatsGet(stats, "blocked_punts") * DefensiveScoring.blocked_punts
         + StatsGet(stats, "blocked_extra_points") * DefensiveScoring.blocked_extra_points
         + StatsGet(stats, "blocked_fg_tds") * DefensiveScoring.blocked_fg_tds
         + StatsGet(stats, "blocked_punt_tds") * DefensiveScoring.blocked_punt_tds
         + StatsGet(stats, "fumbles_on_defense") * DefensiveScoring.fumbles_on_defense
         + StatsGet(stats, "own_fumble_recoveries") * DefensiveScoring.own_fumble_recoveries
         + StatsGet(stats, "own_fumble_recovery_yards") * DefensiveScoring.own_fumble_recovery_yards
         + PositionPoints(stats, position)

\* the columns StatsProcessor._ensure_columns adds when missing, all with
\* default 0 (the offensive, kicking and participation columns are left out)
RequiredCols ==
    {"tackles", "assists", "tackles_for_loss", "sacks_def", "qb_hits", "passes_defended",
     "interceptions_def", "fumble_recoveries", "forced_fumbles", "safeties", "defensive_tds",
     "punts", "punt_yards", "punts_inside_20", "punts_blocked"}

\* the frame row holding the statistics of a dictionary: the processor keeps a
\* defender's interceptions and sacks in interceptions_def and sacks_def
StatsRow(stats, position) ==
    [position |-> position,
     cols |-> [c \in (DOMAIN stats \ {"interceptions", "sacks"}) \cup {"interceptions_def", "sacks_def"} |->
                 IF c = "interceptions_def" THEN stats["interceptions"]
                 ELSE IF c = "sacks_def" THEN stats["sacks"] ELSE stats[c]]]

\* StatsProcessor._calculate_defensive_points on one row
ProcessorDefensivePoints(row) ==
    row.cols["forced_fumbles"] * DefensiveScoring.forced_fumbles
    + row.cols["fumble_recoveries"] * DefensiveScoring.fumble_recoveries
    + row.cols["interceptions_def"] * DefensiveScoring.interceptions
    + row.cols["sacks_def"] * DefensiveScoring.sacks
    + row.cols["qb_hits"] * DefensiveScoring.qb_hits
    + row.cols["tackles_for_loss"] * DefensiveScoring.tackles_for_loss
    + row.cols["safeties"] * DefensiveScoring.safeties
    + row.cols["defensive_tds"] * DefensiveScoring.defensive_tds
    + row.cols["tackles"] * PositionScoring(row.position).tackles
    + row.cols["assists"] * PositionScoring(row.position).assists
    + row.cols["passes_defended"] * PositionScoring(row.position).passes_defended

\* StatsProcessor._calculate_punting_points on one row
ProcessorPuntingPoints(row) ==
    row.cols["punts"] * PuntingScoring.punts
    + row.cols["punt_yards"] * PuntingScoring.punt_yards
    + row.cols["punts_inside_20"] * PuntingScoring.punts_inside_20
    + row.cols["punts_blocked"] * PuntingScoring.punts_blocked

EnsureColumns(row) ==
    [row EXCEPT !.cols = [c \in DOMAIN row.cols \cup RequiredCols |->
                              IF c \in DOMAIN row.cols THEN row.cols[c] ELSE 0]]

\* StatsProcessor.calculate_fantasy_points on one row of a defender, a punter
\* or a position without scoring (offensive and kicker rows are not among the
\* rows drawn); _normalize_positions leaves these position codes as they are
CalculateFantasyPoints(row) ==
    LET df == EnsureColumns(row)
    IN  [position |-> df.position, cols |-> df.cols,
         fantasy_points_mppr |->
             IF df.position \in DefensivePositions THEN ProcessorDefensivePoints(df)
             ELSE IF df.position = "PN" THEN ProcessorPuntingPoints(df)
             ELSE 0]

PuntingCols == {"punts", "punt_yards", "punts_inside_20", "punts_blocked", "fumbles_special_teams"}

\* rows of punters (code PN, and P as the play-by-play source writes it) and
\* of a linebacker, holding any subset of the punting columns
PuntingRows ==
    UNION {{[position |-> p, cols |-> c] : p \in {"PN", "P", "LB"}, c \in [present -> 0..MaxStatValue]}
           : present \in SUBSET PuntingCols}

CalculateDefensivePointsCall ==
    /\ mode = "defensive_points"
    /\ pure_call' = [pure_call EXCEPT !.result =
            [calculator |-> CalculateDefensivePoints(pure_call.stats, pure_call.position),
             processor |-> ProcessorDefensivePoints(StatsRow(pure_call.stats, pure_call.position))]]
    /\ UNCHANGED <<mode, war_vars, auction_vars, cache_vars, win_prob_calls, weeks_call, cli_call, loader_vars, key_vars>>

CalculateFantasyPointsCall ==
    /\ mode = "fantasy_points"
    /\ pure_call' = [pure_call EXCEPT !.result = CalculateFantasyPoints(pure_call.row)]
    /\ UNCHANGED <<mode, war_vars, auction_vars, cache_vars, win_prob_calls, weeks_call, cli_call, loader_vars, key_vars>>

(***************************************************************************)
(* ReplacementLevelCalculator.identify_breakpoint_tiers                    *)
(***************************************************************************)
NumTiers == 1..MaxTiers

\* np.diff(points), indexed from 0 as the array is
PointDiffs(position_players) ==
    [j \in 0..(Len(position_players) - 2) |->
        position_players[j + 2].total_fantasy_points_mppr - position_players[j + 1].total_fantasy_points_mppr]

\* np.argsort(point_diffs)[:count]: the indices of the count smallest
\* differences, equal differences in any order
LargestDrops(point_diffs, count) ==
    {drops \in SUBSET DOMAIN point_diffs :
        /\ Cardinality(drops) = Min(Max(count, 0), Cardinality(DOMAIN point_diffs))
        /\ \A d \in drops : \A e \in DOMAIN point_diffs \ drops : point_diffs[d] <= point_diffs[e]}

TierBoundaries_NoOffset(largest_drops, n) == <<0>> \o SortedSet(largest_drops) \o <<n>>

\* [0] + list(np.sort(largest_drops) + 1) + [len(points)]
TierBoundaries(largest_drops, n) == <<0>> \o SortedSet({d + 1 : d \in largest_drops}) \o <<n>>

TierInfo(position_players, i, start_idx, end_idx) ==
    LET tier_players == SubSeq(position_players, start_idx + 1, end_idx)
    IN  [tier_number |-> i + 1, start_rank |-> start_idx + 1, end_rank |-> end_idx,
         player_count |-> Len(tier_players),
         avg_points |-> [num |-> SumTotals(SeqToSet(tier_players)),
                         den |-> Len(tier_players)],
         min_points |-> CHOOSE v \in {r.total_fantasy_points_mppr : r \in SeqToSet(tier_players)} :
                            \A r \in SeqToSet(tier_players) : v <= r.total_fantasy_points_mppr,
         max_points |-> CHOOSE v \in {r.total_fantasy_points_mppr : r \in SeqToSet(tier_players)} :
                            \A r \in SeqToSet(tier_players) : v >= r.total_fantasy_points_mppr,
         players |-> [k \in DOMAIN tier_players |-> tier_players[k].player_id]]

\* the tiers dictionary built from one list of boundaries: a band without
\* players gets no entry
TiersOf(position_players, tier_boundaries) ==
    LET filled == {i \in 0..(Len(tier_boundaries) - 2) : tier_boundaries[i + 2] - tier_boundaries[i + 1] > 0}
    IN  [t \in {i + 1 : i \in filled} |->
            TierInfo(position_players, t - 1, tier_boundaries[t], tier_boundaries[t + 1])]

\* every dictionary the call can return: one per order of tied players and
\* per choice among equal drops
IdentifyBreakpointTiers(stats_df, cfg, num_tiers) ==
    UNION {LET n == Len(position_players)
               tiers == IF n < num_tiers THEN Max(1, n) ELSE num_tiers
           IN  IF n > 1
               THEN {TiersOf(position_players, TierBoundaries(drops, n))
                        : drops \in LargestDrops(PointDiffs(position_players), tiers - 1)}
               ELSE {TiersOf(position_players, <<0, n>>)}
           : position_players \in SortedByTotal(QualifiedPlayers(stats_df, Position, cfg))}

IdentifyBreakpointTiersCall ==
    /\ mode = "tiers"
    /\ \E tiers \in IdentifyBreakpointTiers(pure_call.stats_df, pure_call.league_config, pure_call.num_tiers) :
        pure_call' = [pure_call EXCEPT !.result = [tiers |-> tiers]]
    /\ UNCHANGED <<mode, war_vars, auction_vars, cache_vars, win_prob_calls, weeks_call, cli_call, loader_vars, key_vars>>

(***************************************************************************)
(* WinProbabilityCalculator.calculate_value_over_replacement_curve         *)
(***************************************************************************)
CurveGames == 17        \* the season length the curve assumes

\* np.linspace(min_points, max_points, num_points)[i], as a fraction
Linspace(min_points, max_points, num_points, i) ==
    IF num_points = 1 THEN [num |-> min_points, den |-> 1]
    ELSE [num |-> min_points * (num_points - 1) + i * (max_points - min_points), den |-> num_points - 1]

\* the entry appended for one grid point, given the entries before it
CurvePoint(points, replacement_win_prob, context, curve_points) ==
    LET win_prob == CalculateWinProbability(points.num, points.den, context.team_avg_score, context.team_score_std)
        expected_wins == win_prob * CurveGames
        replacement_wins == replacement_win_prob * CurveGames
        war == expected_wins - replacement_wins
    IN  [fantasy_points |-> points, win_probability |-> win_prob, expected_wins |-> expected_wins,
         war |-> war,
         marginal_war |-> war - (IF curve_points # <<>> THEN curve_points[Len(curve_points)].war ELSE 0)]

\* the first count entries of the curve
RECURSIVE CurvePoints(_, _, _, _, _, _)
CurvePoints(min_points, max_points, num_points, replacement_win_prob, context, count) ==
    IF count = 0 THEN <<>>
    ELSE LET before == CurvePoints(min_points, max_points, num_points, replacement_win_prob, context, count - 1)
         IN  Append(before, CurvePoint(Linspace(min_points, max_points, num_points, count - 1),
                                       replacement_win_prob, context, before))

CalculateValueOverReplacementCurve(min_points, max_points, replacement_level_points, context, num_points) ==
    IF min_points >= max_points THEN <<>>
    ELSE CurvePoints(min_points, max_points, num_points,
                     CalculateWinProbability(replacement_level_points, 1, context.team_avg_score, context.team_score_std),
                     context, num_points)

CurveCalls ==
    [min_points : 0..MaxScore, max_points : 0..MaxScore, replacement_level_points : {0, 2},
     team_context : [team_avg_score : Means, team_score_std : Stds],
     num_points : 0..MaxCurvePoints, result : {NotCalled}]

CalculateValueOverReplacementCurveCall ==
    /\ mode = "curve"
    /\ pure_call' = [pure_call EXCEPT !.result =
            [curve |-> CalculateValueOverReplacementCurve(pure_call.min_points, pure_call.max_points,
                            pure_call.replacement_level_points, pure_call.team_context, pure_call.num_points)]]
    /\ UNCHANGED <<mode, war_vars, auction_vars, cache_vars, win_prob_calls, weeks_call, cli_call, loader_vars, key_vars>>

(***************************************************************************)
(* Specifications                                                          *)
(***************************************************************************)
WarIdle ==
    /\ weekly_stats = {}
    /\ league_config = [teams |-> MinTeams, max_req |-> 1, minimum_games_played |-> 1]
    /\ team_context = [team_avg_score |-> 0, team_score_std |-> 1]
    /\ replacement_input = {}
    /\ replacement_info = NotCalled
    /\ position_war = NotCalled
    /\ scarcity_multipliers = NotCalled
    /\ league_result = NotCalled

AuctionIdle ==
    /\ league_war = LeagueWarOf(<<>>, 1)
    /\ total_budget = 200
    /\ auction_values = NotCalled
    /\ auction_scarcity = NotCalled
    /\ total_auction_value = 0

WinProbabilityIdle == win_prob_calls = <<>>

ValidatorsIdle == weeks_call = NotCalled

CliIdle == cli_call = NotCalled

LoaderIdle ==
    /\ loader_env = NotCalled
    /\ loader = NotCalled
    /\ loader_cache = EmptyLoaderCache
    /\ loader_call = NotCalled

RestIdle ==
    /\ key_store = {}
    /\ key_call = NotCalled
    /\ pure_call = NotCalled

OuterIdle ==
    /\ WinProbabilityIdle
    /\ RestIdle
    /\ ValidatorsIdle
    /\ CliIdle
    /\ LoaderIdle

CacheIdle ==
    /\ enabled = TRUE
    /\ cache = EmptyStore
    /\ last = NoCall
    /\ prev_call = NotCalled

InitWar ==
    /\ mode = "war"
    /\ weekly_stats \in {WeeklyRows(r) \cup extra : r \in Rosters, extra \in {{}, OverlongRows}}
    /\ league_config \in LeagueConfigs
    /\ team_context \in TeamContexts
    /\ replacement_input = {}
    /\ replacement_info = NotCalled
    /\ position_war = NotCalled
    /\ scarcity_multipliers = NotCalled
    /\ league_result = NotCalled
    /\ AuctionIdle
    /\ CacheIdle
    /\ OuterIdle

NextWar == CalculatePositionWar \/ FindReplacementLevelCall

SpecWar == InitWar /\ [][NextWar]_vars

InitAuction ==
    /\ mode = "auction"
    /\ WarIdle
    /\ league_war \in {LeagueWarOf(r, n) : r \in WarRosters, n \in StarterSpots}
                       \cup {LeagueWarWithRepeat(r, n, war) : r \in WarRosters \ {<<>>}, n \in StarterSpots, war \in SeqToSet(WarValues)}
    /\ total_budget \in Budgets
    /\ auction_values = NotCalled
    /\ auction_scarcity = NotCalled
    /\ total_auction_value = 0
    /\ CacheIdle
    /\ OuterIdle

NextAuction == CalculateLeagueAuctionValues

SpecAuction == InitAuction /\ [][NextAuction]_vars

\* a cache manager on an empty cache directory, caching enabled as settings
\* default it
InitCache ==
    /\ mode = "cache"
    /\ WarIdle
    /\ AuctionIdle
    /\ CacheIdle
    /\ OuterIdle

NextCache ==
    \/ SetEnabled
    \/ Expire
    \/ Get
    \/ Set
    \/ CachedCall
    \/ InvalidatePattern
    \/ ClearExpired
    \/ ClearAll
    \/ GetStats

SpecCache == InitCache /\ [][NextCache]_vars

\* calculate_league_war on the frames calculate_position_war is given
InitLeague ==
    /\ mode = "league"
    /\ weekly_stats \in {WeeklyRows(r) \cup extra : r \in Rosters, extra \in {{}, OverlongRows}}
    /\ league_config \in LeagueConfigs
    /\ team_context \in TeamContexts
    /\ replacement_input = {}
    /\ replacement_info = NotCalled
    /\ position_war = NotCalled
    /\ scarcity_multipliers = NotCalled
    /\ league_result = NotCalled
    /\ AuctionIdle
    /\ CacheIdle
    /\ OuterIdle

NextLeague == CalculateLeagueWar

SpecLeague == InitLeague /\ [][NextLeague]_vars

\* calculate_win_probability as a function of its arguments
InitWinProbability ==
    /\ mode = "win_probability"
    /\ WarIdle
    /\ AuctionIdle
    /\ CacheIdle
    /\ OuterIdle

NextWinProbability == CalculateWinProbabilityCall

SpecWinProbability == InitWinProbability /\ [][NextWinProbability]_vars

\* validate_weeks_list as a function of its argument
InitValidators ==
    /\ mode = "validators"
    /\ WarIdle
    /\ AuctionIdle
    /\ CacheIdle
    /\ WinProbabilityIdle
    /\ RestIdle
    /\ CliIdle
    /\ LoaderIdle
    /\ weeks_call \in {[weeks |-> weeks, result |-> NotCalled] : weeks \in WeeksArgs}

NextValidators == ValidateWeeksListCall

SpecValidators == InitValidators /\ [][NextValidators]_vars

\* the calculate-war command as a function of its options and its data
InitCli ==
    /\ mode = "cli"
    /\ WarIdle
    /\ AuctionIdle
    /\ CacheIdle
    /\ WinProbabilityIdle
    /\ RestIdle
    /\ ValidatorsIdle
    /\ LoaderIdle
    /\ cli_call \in [weeks : CliWeeks, positions : CliPositions, data : DataOutcomes, result : {NotCalled}]

NextCli == CalculateWarCommand

SpecCli == InitCli /\ [][NextCli]_vars

\* a loader in every environment, then its load_* calls in any order
InitLoader ==
    /\ mode = "loader"
    /\ WarIdle
    /\ AuctionIdle
    /\ CacheIdle
    /\ WinProbabilityIdle
    /\ RestIdle
    /\ ValidatorsIdle
    /\ CliIdle
    /\ loader_env \in LoaderEnvs
    /\ loader = NotCalled
    /\ loader_cache = EmptyLoaderCache
    /\ loader_call = NotCalled

NextLoader == Construct \/ LoadPbpDataCall \/ LoadPlayerStatsCall \/ LoadIdpStatsCall

SpecLoader == InitLoader /\ [][NextLoader]_vars

\* the load_* methods in any order, seen through their cache keys
InitLoaderKeys ==
    /\ mode = "loader_keys"
    /\ WarIdle
    /\ AuctionIdle
    /\ CacheIdle
    /\ OuterIdle

NextLoaderKeys == KeyedLoadPbpData \/ KeyedLoadPlayerStats \/ KeyedLoadRosterData \/ KeyedLoadFfOpportunity \/ KeyedLoadIdpStats

SpecLoaderKeys == InitLoaderKeys /\ [][NextLoaderKeys]_vars

\* every specification of a function called on its own
PureIdle ==
    /\ WarIdle
    /\ AuctionIdle
    /\ CacheIdle
    /\ WinProbabilityIdle
    /\ ValidatorsIdle
    /\ CliIdle
    /\ LoaderIdle
    /\ key_store = {}
    /\ key_call = NotCalled

\* find_flex_replacement_level on a season frame
InitFlex ==
    /\ mode = "flex"
    /\ PureIdle
    /\ pure_call \in [stats_df : {GroupBySeason(WeeklyRows(r)) : r \in Rosters}, league_config : LeagueConfigs, flex_spots : FlexSpots, result : {NotCalled}]

NextFlex == FindFlexReplacementLevelCall

SpecFlex == InitFlex /\ [][NextFlex]_vars

\* the two defensive point formulas on the same statistics
InitDefensivePoints ==
    /\ mode = "defensive_points"
    /\ PureIdle
    /\ pure_call \in [stats : DefensiveStats, position : DefensivePositions, result : {NotCalled}]

NextDefensivePoints == CalculateDefensivePointsCall

SpecDefensivePoints == InitDefensivePoints /\ [][NextDefensivePoints]_vars

\* calculate_fantasy_points on one punting row
InitFantasyPoints ==
    /\ mode = "fantasy_points"
    /\ PureIdle
    /\ pure_call \in [row : PuntingRows, result : {NotCalled}]

NextFantasyPoints == CalculateFantasyPointsCall

SpecFantasyPoints == InitFantasyPoints /\ [][NextFantasyPoints]_vars

\* identify_breakpoint_tiers on a season frame
InitTiers ==
    /\ mode = "tiers"
    /\ PureIdle
    /\ pure_call \in [stats_df : {GroupBySeason(WeeklyRows(r)) : r \in Rosters}, league_config : LeagueConfigs, num_tiers : NumTiers, result : {NotCalled}]

NextTiers == IdentifyBreakpointTiersCall

SpecTiers == InitTiers /\ [][NextTiers]_vars

\* calculate_value_over_replacement_curve
InitCurve ==
    /\ mode = "curve"
    /\ PureIdle
    /\ pure_call \in CurveCalls

NextCurve == CalculateValueOverReplacementCurveCall

SpecCurve == InitCurve /\ [][NextCurve]_vars

\* calculate_positional_rankings on a season frame
InitRankings ==
    /\ mode = "rankings"
    /\ PureIdle
    /\ pure_call \in [stats_df : RankFrames, result : {NotCalled}]

NextRankings == CalculatePositionalRankings

SpecRankings == InitRankings /\ [][NextRankings]_vars

\* the two positional scarcity calculations: the replacement-level
\* calculator's on a stats frame, the auction value calculator's on a LeagueWAR
InitReplacementScarcity ==
    /\ mode = "scarcity"
    /\ weekly_stats \in {WeeklyRows(r) : r \in Rosters}
    /\ league_config \in LeagueConfigs
    /\ team_context = [team_avg_score |-> 0, team_score_std |-> 1]
    /\ replacement_input = {}
    /\ replacement_info = NotCalled
    /\ position_war = NotCalled
    /\ scarcity_multipliers = NotCalled
    /\ league_result = NotCalled
    /\ AuctionIdle
    /\ CacheIdle
    /\ OuterIdle

InitScarcity == InitReplacementScarcity \/ InitAuction

NextScarcity == CalculatePositionalScarcity \/ CalculateLeagueAuctionValues

SpecScarcity == InitScarcity /\ [][NextScarcity]_vars

\* the whole package
Init == InitWar \/ InitWinProbability \/ InitValidators \/ InitCli \/ InitFlex \/ InitTiers \/ InitCurve \/ InitRankings \/ InitDefensivePoints \/ InitFantasyPoints \/ InitLoader \/ InitLoaderKeys \/ InitLeague \/ InitReplacementScarcity \/ InitAuction \/ InitCache

Next == NextWar \/ NextWinProbability \/ NextValidators \/ NextCli \/ NextFlex \/ NextTiers \/ NextCurve \/ NextRankings \/ NextDefensivePoints \/ NextFantasyPoints \/ NextLoader \/ NextLoaderKeys \/ NextLeague \/ CalculatePositionalScarcity \/ NextAuction \/ NextCache

Spec == Init /\ [][Next]_vars

(***************************************************************************)
(* Properties of the WAR engine and the replacement-level calculator       *)
(***************************************************************************)
\* the frame of season totals, and the position's qualified players in it
SeasonFrame == replacement_input
Qualified == QualifiedPlayers(SeasonFrame, Position, league_config)
PoolSize == StarterPoolSize(league_config)

Returned(x) == x \notin {NotCalled, None, Raise}

PlayerWarSet == IF Returned(position_war) THEN SeqToSet(position_war.player_wars) ELSE {}

\* the WARResults of the replacement-level player find_replacement_level named
ReplacementWars == {w \in PlayerWarSet : w.player_id = position_war.replacement_player_id}

\* C1: a player whose season total and games played equal those of the
\* replacement-level player (the replacement-level player itself included)
\* has wins_above_replacement = 0.
C1_ReplacementLevelWarIsZero ==
    \A r \in ReplacementWars : \A w \in PlayerWarSet :
        (w.total_fantasy_points = r.total_fantasy_points /\ w.games_played = r.games_played)
            => w.wins_above_replacement = 0

\* C2: a player with the replacement-level player's games played and a
\* strictly greater season total has wins_above_replacement > 0.
C2_AboveReplacementWarIsPositive ==
    \A r \in ReplacementWars : \A w \in PlayerWarSet :
        (w.games_played = r.games_played /\ w.total_fantasy_points > r.total_fantasy_points)
            => w.wins_above_replacement > 0

\* the qualified players a returned record may name at rank n of the
\* descending order by season total
AtRank(n) ==
    {p \in Qualified :
        /\ Cardinality({q \in Qualified :
               q.total_fantasy_points_mppr > p.total_fantasy_points_mppr}) < n
        /\ Cardinality({q \in Qualified :
               q.total_fantasy_points_mppr >= p.total_fantasy_points_mppr}) >= n}

\* C3: with at least teams * max_starters qualified players,
\* find_replacement_level returns rank = teams * max_starters and the player
\* ranked exactly there by descending season total.
C3_ReplacementIsWorstStarter ==
    (replacement_info # NotCalled /\ league_config.max_req > 0
        /\ Cardinality(Qualified) >= PoolSize)
    => /\ Returned(replacement_info)
       /\ replacement_info.rank = PoolSize
       /\ replacement_info.player_id \in {p.player_id : p \in AtRank(PoolSize)}

C3_Witness ==
    /\ Returned(replacement_info)
    /\ Cardinality(Qualified) > PoolSize
    /\ replacement_info.rank = PoolSize
    /\ \E p \in Qualified :
           p.total_fantasy_points_mppr < replacement_info.total_fantasy_points
    /\ \E p \in Qualified :
           p.total_fantasy_points_mppr > replacement_info.total_fantasy_points

\* C4: with 1 <= Q < teams * max_starters qualified players,
\* find_replacement_level returns, without error, rank = Q and the
\* lowest-scoring qualified player; it returns None only when max_starters
\* is 0 or Q = 0.
C4_UndersizedPoolUsesWorstPlayer ==
    replacement_info # NotCalled
    => /\ replacement_info # Raise
       /\ (replacement_info = None)
              <=> (league_config.max_req = 0 \/ Cardinality(Qualified) = 0)
       /\ (league_config.max_req > 0 /\ Cardinality(Qualified) >= 1
              /\ Cardinality(Qualified) < PoolSize)
           => /\ Returned(replacement_info)
              /\ replacement_info.rank = Cardinality(Qualified)
              /\ replacement_info.player_id \in {p.player_id : p \in AtRank(Cardinality(Qualified))}
              /\ \A p \in Qualified :
                     replacement_info.total_fantasy_points <= p.total_fantasy_points_mppr

C4_Witness ==
    /\ Returned(replacement_info)
    /\ Cardinality(Qualified) >= 2
    /\ Cardinality(Qualified) < PoolSize
    /\ replacement_info.rank = Cardinality(Qualified)
    /\ \E p \in Qualified :
           p.total_fantasy_points_mppr > replacement_info.total_fantasy_points

(***************************************************************************)
(* Properties of the auction value calculator                              *)
(***************************************************************************)
AuctionReturned == auction_scarcity # NotCalled

AuctionValueSet == IF AuctionReturned THEN SeqToSet(auction_values) ELSE {}

PositiveWars == {w \in AllWarResults(league_war) : w.wins_above_replacement > 0}

\* C5: every AuctionValue has 1.0 <= auction_value_dollars <= 0.6 * total_budget.
C5_AuctionValueWithinBounds ==
    \A av \in AuctionValueSet :
        /\ av.auction_value_dollars >= Milli
        /\ av.auction_value_dollars <= total_budget * 600

\* C6: the returned list holds no player with wins_above_replacement <= 0 and
\* is no longer than the number of WARResults with strictly positive WAR.
C6_NoValueWithoutPositiveWar ==
    AuctionReturned
    => /\ \A av \in AuctionValueSet : av.wins_above_replacement > 0
       /\ Len(auction_values) <= Cardinality(PositiveWars)

C6_Witness ==
    /\ AuctionReturned
    /\ Len(auction_values) >= 1
    /\ \E w \in AllWarResults(league_war) : w.wins_above_replacement = 0
    /\ \E w \in AllWarResults(league_war) : w.wins_above_replacement < 0

(***************************************************************************)
(* Properties of the cache manager                                         *)
(***************************************************************************)
TwoCachedCalls ==
    /\ last.op = "cached_call"
    /\ prev_call # NotCalled
    /\ prev_call.key = last.key

\* C7 as stated: of two cached_call calls with the same function and
\* arguments and nothing in between, the second does not invoke the function
\* (the function runs once at most for the pair) and returns what the first
\* returned, whatever the function returns and whatever the cache setting.
C7_SecondCallIsServedFromCache ==
    TwoCachedCalls => ~last.invoked /\ last.result = prev_call.result

\* C7 amended: the same, given that caching is enabled, the backing store did
\* not raise during either call and the first call's result is not None.
C7_SecondCallIsServedFromCache_Amended ==
    (/\ TwoCachedCalls
     /\ last.enabled /\ prev_call.enabled
     /\ ~last.fails /\ ~prev_call.fails
     /\ prev_call.result # None)
    => ~last.invoked /\ last.result = prev_call.result

C7_Witness ==
    /\ TwoCachedCalls
    /\ last.enabled /\ prev_call.enabled
    /\ ~last.fails /\ ~prev_call.fails
    /\ prev_call.invoked
    /\ prev_call.result # None
    /\ ~last.invoked

\* C8: while caching is disabled, get returns None, set returns False, and a
\* get, set or cached_call step leaves the backing store as it was.
C8_DisabledCacheIsUntouched ==
    [][(~enabled /\ last'.op \in {"get", "set", "cached_call"})
        => /\ cache' = cache
           /\ last'.op = "get" => last'.result = None
           /\ last'.op = "set" => ~last'.ok]_vars

C8_Witness ==
    /\ ~enabled
    /\ last.op = "cached_call"
    /\ last.invoked
    /\ last.computed # None
    /\ Present(cache) # {}

\* C9: when the backing store raises, no exception reaches the caller of the
\* cache manager; get returns None, set and clear_all return False, and
\* cached_call returns what the function just computed.
C9_StoreFailuresAreContained ==
    /\ ~last.raised
    /\ last.fails =>
        /\ last.op = "get" => last.result = None
        /\ last.op \in {"set", "clear_all"} => ~last.ok
        /\ last.op = "cached_call" => last.invoked /\ last.result = last.computed

C9_Witness ==
    /\ last.fails
    /\ last.op = "cached_call"
    /\ last.computed # None
    /\ last.result = last.computed

(***************************************************************************)
(* Properties of the two scarcity calculations                             *)
(***************************************************************************)
\* C10: every multiplier calculate_positional_scarcity returns is at most 2.0
\* and every multiplier _calculate_positional_scarcity returns is at most 1.8.
C10_ScarcityMultipliersAreCapped ==
    /\ Returned(scarcity_multipliers)
        => \A p \in DOMAIN scarcity_multipliers :
              scarcity_multipliers[p] <= ReplacementScarcityCap
    /\ AuctionReturned
        => \A p \in DOMAIN auction_scarcity : auction_scarcity[p] <= ScarcityCap

C10_Witness ==
    \/ /\ Returned(scarcity_multipliers)
       /\ \E p \in DOMAIN scarcity_multipliers :
              scarcity_multipliers[p] = ReplacementScarcityCap
    \/ /\ AuctionReturned
       /\ \E p \in DOMAIN auction_scarcity : auction_scarcity[p] = ScarcityCap

\* C11: for a position with fewer than two qualified players, both scarcity
\* calculations return, without raising, a multiplier of exactly 1.0.
C11_FewQualifiedDefaultsToOne ==
    /\ scarcity_multipliers # NotCalled
        => \A p \in AllPositions(league_config) :
              Cardinality(QualifiedPlayers(GroupBySeason(weekly_stats), p, league_config)) < 2
                  => IF scarcity_multipliers = Raise THEN FALSE
                     ELSE scarcity_multipliers[p] = Milli
    /\ AuctionReturned
        => \A p \in DOMAIN auction_scarcity :
              Cardinality(QualifiedWars(league_war.position_results[p])) < 2
                  => auction_scarcity[p] = Milli

(***************************************************************************)
(* Properties of calculate_league_war                                      *)
(***************************************************************************)
LeagueReturned == league_result \notin {NotCalled, Raise}

\* the rows calculate_league_war keeps for the weeks it analysed
LeagueFrame ==
    {r \in weekly_stats : r.season = Season /\ r.week \in league_result.weeks_analyzed}

\* the season rows calculate_position_war computes a WAR for
LeagueQualified(position) ==
    AggregateToSeason({r \in LeagueFrame : r.position = position
                          /\ r.games_played >= league_config.minimum_games_played},
                      league_config)

\* the season rows no WARResult can be constructed for
FailsWar(row) == row.games_played > MaxSeasonGames

ResultIds(position) ==
    IF position \in league_result.positions_analyzed
    THEN {w.player_id : w \in SeqToSet(league_result.position_results[position].player_wars)}
    ELSE {}

\* C15: a player whose WAR computation raises is left out and nothing else
\* changes: calculate_league_war completes, and each position's PositionWAR
\* holds a WARResult for every other qualified player and none for the
\* failing one.
C15_FailingPlayerIsOmitted ==
    league_result # NotCalled
    => /\ league_result # Raise
       /\ \A p \in AllPositions(league_config) :
              ResultIds(p) = {q.player_id : q \in {x \in LeagueQualified(p) : ~FailsWar(x)}}

C15_Witness ==
    /\ LeagueReturned
    /\ Position \in league_result.positions_analyzed
    /\ \E q \in LeagueQualified(Position) : FailsWar(q)
    /\ Cardinality(ResultIds(Position)) >= 2

(***************************************************************************)
(* Properties of the eligibility filter of calculate_position_war          *)
(***************************************************************************)
\* the season totals of the position's players over all their weekly rows
PositionSeasonTotals == GroupBySeason({r \in weekly_stats : r.position = Position})

\* C20: when calculate_position_war returns a PositionWAR, every player of the
\* position whose games played, summed over the weekly rows, reach
\* minimum_games_played (and for whom a WARResult can be built) has a
\* WARResult in it.
C20_EligiblePlayersHaveWar ==
    Returned(position_war)
    => \A q \in PositionSeasonTotals :
          (q.games_played >= league_config.minimum_games_played /\ ~FailsWar(q))
              => q.player_id \in {w.player_id : w \in PlayerWarSet}

(***************************************************************************)
(* Properties of calculate_win_probability                                 *)
(***************************************************************************)
\* score a is at most score b
ScoreLeq(a, b) == a.score_num * b.score_den <= b.score_num * a.score_den

SameTeam(a, b) ==
    /\ a.team_average_score = b.team_average_score
    /\ a.team_score_std = b.team_score_std

\* C17: for a fixed team mean and standard deviation the win probability is
\* non-decreasing in the score, is exactly 0.5 at the mean, lies in [0, 1],
\* and a non-positive standard deviation gives what 1.0 gives.
C17_WinProbabilityIsMonotone ==
    \A i \in DOMAIN win_prob_calls : \A j \in DOMAIN win_prob_calls :
        LET a == win_prob_calls[i]
            b == win_prob_calls[j]
        IN  /\ a.win_prob >= 0 /\ a.win_prob <= Micro
            /\ a.score_num = a.team_average_score * a.score_den => 2 * a.win_prob = Micro
            /\ (SameTeam(a, b) /\ ScoreLeq(a, b)) => a.win_prob <= b.win_prob
            /\ (a.team_score_std <= 0 /\ b.team_score_std = 1
                   /\ a.team_average_score = b.team_average_score
                   /\ ScoreLeq(a, b) /\ ScoreLeq(b, a))
               => a.win_prob = b.win_prob

C17_Witness ==
    /\ Len(win_prob_calls) = 2
    /\ SameTeam(win_prob_calls[1], win_prob_calls[2])
    /\ win_prob_calls[1].team_score_std <= 0
    /\ ~ScoreLeq(win_prob_calls[2], win_prob_calls[1])
    /\ win_prob_calls[1].win_prob > 0
    /\ win_prob_calls[1].win_prob < win_prob_calls[2].win_prob
    /\ win_prob_calls[2].win_prob < Micro

(***************************************************************************)
(* Properties of validate_weeks_list                                       *)
(***************************************************************************)
DigitChar(d) ==
    CASE d = 0 -> "0" [] d = 1 -> "1" [] d = 2 -> "2" [] d = 3 -> "3" [] d = 4 -> "4"
      [] d = 5 -> "5" [] d = 6 -> "6" [] d = 7 -> "7" [] d = 8 -> "8" [] d = 9 -> "9"

\* the decimal numeral of a week number
Decimal(n) == IF n < 10 THEN <<DigitChar(n)>> ELSE <<DigitChar(n \div 10), DigitChar(n % 10)>>

RangeString(a, b) == Decimal(a) \o <<"-">> \o Decimal(b)

\* C18: for the string "a-b" with a and b valid week numbers, validate_weeks_list
\* returns the ascending list a, a+1, ..., b when a <= b, and raises the
\* start-after-end error, returning no list, when a > b.
C18_WeekRangeIsAscendingOrRejected ==
    weeks_call.result # NotCalled =>
        \A a \in 1..LastWeek : \A b \in 1..LastWeek :
            weeks_call.weeks = RangeString(a, b) =>
                IF a <= b
                THEN /\ ~weeks_call.result.raised
                     /\ weeks_call.result.weeks = [k \in 1..(b - a + 1) |-> a + k - 1]
                ELSE /\ weeks_call.result.raised
                     /\ weeks_call.result.message = "Invalid week range: start week must be <= end week"

C18_Witness ==
    /\ weeks_call.result # NotCalled
    /\ weeks_call.weeks = RangeString(8, LastWeek)
    /\ ~weeks_call.result.raised
    /\ Len(weeks_call.result.weeks) = 11

(***************************************************************************)
(* Properties of the calculate-war command                                 *)
(***************************************************************************)
\* the eleven position codes validate_position accepts
ValidPositions == {"QB", "RB", "WR", "TE", "PK", "PN", "DT", "DE", "LB", "CB", "S"}

\* a start-end range with start after end, or a week outside 1..LastWeek
InvalidWeeksOption(weeks) ==
    \/ \E a \in 1..LastWeek : \E b \in 1..LastWeek : a > b /\ weeks = RangeString(a, b)
    \/ /\ CliWeekList(weeks).ok
       /\ \E k \in DOMAIN CliWeekList(weeks).weeks : CliWeekList(weeks).weeks[k] \notin 1..LastWeek

InvalidPositionsOption(positions) ==
    \E k \in DOMAIN positions : Upper(positions[k]) \notin ValidPositions

\* C16: the calculate-war command given an invalid --weeks or --positions
\* value prints an error and exits with a non-zero status.
C16_InvalidOptionsExitNonZero ==
    (/\ cli_call.result # NotCalled
     /\ InvalidWeeksOption(cli_call.weeks) \/ InvalidPositionsOption(cli_call.positions))
    => (cli_call.result.exit_code # 0 /\ cli_call.result.error)

(***************************************************************************)
(* Properties of NFLDataLoader                                             *)
(***************************************************************************)
Count(trace, call) == Cardinality({k \in DOMAIN trace : trace[k] = call})

\* the interop environment is there and its packages load
InteropWorks(env) == env.settings_use_rpy2_fallback /\ env.RPI2_AVAILABLE /\ env.r_packages_load

PrimaryWorks(env) == env.settings_use_nfl_data_py /\ env.NFL_DATA_PY_AVAILABLE

\* C12: a loader whose construction completed has at least one usable source,
\* and with neither the primary library nor a working interop environment
\* construction raises.
C12_ConstructedLoaderHasSource ==
    loader # NotCalled =>
        /\ ~loader.raised => (loader.use_nfl_data_py \/ loader.use_rpy2_fallback)
        /\ (~PrimaryWorks(loader_env) /\ ~InteropWorks(loader_env)) => loader.raised

PbpCall == loader_call # NotCalled /\ loader_call.op = "load_pbp_data" /\ ~loader_call.hit

SucceededYears == {y \in LoaderYears : loader_env.import_pbp_data[y] = "rows"}

IdpCall == loader_call # NotCalled /\ loader_call.op = "load_idp_stats"

\* C14: every row load_idp_stats returns, on every path, has a position among
\* DT, DE, LB, CB and S.
C14_IdpRowsHaveIdpPositions ==
    (IdpCall /\ loader_call.result # Raise) =>
        \A row \in loader_call.result.rows : row.position \in IdpPositions

StatsCall == loader_call # NotCalled /\ loader_call.op = "load_player_stats" /\ ~loader_call.hit

\* the position in the trace of the first call of that name, 0 when there is none
FirstCall(trace, call) ==
    IF Count(trace, call) = 0 THEN 0
    ELSE CHOOSE k \in DOMAIN trace : trace[k] = call /\ \A j \in 1..(k - 1) : trace[j] # call

\* the play-by-play step of load_player_stats gave a frame
PbpStepReturned == Count(loader_call.trace, "calculate_stats") + Count(loader_call.trace, "import_weekly_data") > 0

\* C19: in load_player_stats with no cache hit, the interop calculate_stats
\* comes before any weekly import of the primary library whenever the interop
\* source is enabled; the weekly import is invoked only if the interop source
\* is disabled or its call raised; and an interop call that raised with the
\* primary library unavailable leaves the call raising.
C19_InteropStatsComeFirst ==
    StatsCall =>
        /\ (loader.use_rpy2_fallback /\ PbpStepReturned) =>
            /\ Count(loader_call.trace, "calculate_stats") = 1
            /\ Count(loader_call.trace, "import_weekly_data") > 0 =>
                FirstCall(loader_call.trace, "calculate_stats") < FirstCall(loader_call.trace, "import_weekly_data")
        /\ Count(loader_call.trace, "import_weekly_data") > 0 =>
            \/ ~loader.use_rpy2_fallback
            \/ Count(loader_call.trace, "calculate_stats") = 1 /\ loader_env.calculate_stats = "fails"
        /\ (/\ Count(loader_call.trace, "calculate_stats") = 1
            /\ loader_env.calculate_stats = "fails"
            /\ ~loader.use_nfl_data_py) => loader_call.result = Raise

C19_Witness ==
    /\ StatsCall
    /\ loader.use_rpy2_fallback
    /\ loader.use_nfl_data_py
    /\ loader_env.calculate_stats = "fails"
    /\ Count(loader_call.trace, "import_weekly_data") > 0
    /\ loader_call.result # Raise

(***************************************************************************)
(* Properties of the loader's cache                                        *)
(***************************************************************************)
\* C21: a result a load_* method serves from the cache was loaded for exactly
\* the years of the request: requests of one operation with different year
\* lists share no cache entry.
C21_CacheHitIsForRequestedYears ==
    (key_call # NotCalled /\ key_call.hit) => key_call.loaded_for = key_call.years

\* C22: load_pbp_data puts its result in the cache only when every requested
\* year was loaded, so a load_pbp_data served from the cache holds every
\* requested year.
C22_PartialPbpLoadIsNotCached ==
    (loader_call # NotCalled /\ loader_call.op = "load_pbp_data" /\ loader_call.result # Raise) =>
        /\ Seasons(loader_call.result) # LoaderYears => loader_cache.pbp_data = Missing
        /\ loader_call.hit => Seasons(loader_call.result) = LoaderYears

(***************************************************************************)
(* Properties of find_flex_replacement_level                               *)
(***************************************************************************)
\* C23: with a flex-eligible player left after the dedicated starters are
\* removed, find_flex_replacement_level returns a record whose rank is the
\* smaller of flex_spots and the number of eligible players.
C23_FlexReplacementIsReturned ==
    (/\ mode = "flex"
     /\ pure_call.result # NotCalled
     /\ \A flex_eligible \in FlexEligible(pure_call.stats_df, pure_call.league_config) : Len(flex_eligible) > 0)
    => /\ pure_call.result # None
       /\ pure_call.result # Raise
       /\ \E flex_eligible \in FlexEligible(pure_call.stats_df, pure_call.league_config) :
            pure_call.result.rank = Min(pure_call.flex_spots, Len(flex_eligible))

(***************************************************************************)
(* Properties of the auction values' tiers and ranks                       *)
(***************************************************************************)
\* C24: every AuctionValue's draft_tier is the tier the tier rule gives for
\* the record's war_rank_overall and its reported auction_value_dollars.
C24_TierMatchesReportedValue ==
    AuctionReturned =>
        \A v \in AuctionValueSet :
            v.draft_tier = CalculateDraftTier(v.war_rank_overall, v.auction_value_dollars, v.league_budget_total)

\* C30: of two AuctionValue records at one position, the one with strictly
\* greater WAR has the strictly smaller war_rank_position.
C30_PositionRankFollowsWar ==
    AuctionReturned =>
        \A v \in AuctionValueSet : \A w \in AuctionValueSet :
            (v.position = w.position /\ v.wins_above_replacement > w.wins_above_replacement)
                => v.war_rank_position < w.war_rank_position

(***************************************************************************)
(* Properties of calculate_positional_rankings                             *)
(***************************************************************************)
SameFraction(a, b) == a.num * b.den = b.num * a.den

GroupOf(row) == {r \in pure_call.stats_df : r.season = row.season /\ r.position = row.position}

SeasonOf(row) == {r \in pure_call.stats_df : r.season = row.season}

\* C25: percentile_position is the row's average-method descending rank
\* within its (season, position) group divided by the group's row count,
\* percentile_overall the same within its season, and both lie in (0, 1].
C25_PercentilesAreGroupRanks ==
    (mode = "rankings" /\ pure_call.result # NotCalled) =>
        /\ pure_call.result # Raise
        /\ \A row \in pure_call.result.rows :
            /\ SameFraction(row.percentile_position, Divide(AverageRank(row, GroupOf(row)), Cardinality(GroupOf(row))))
            /\ SameFraction(row.percentile_overall, Divide(AverageRank(row, SeasonOf(row)), Cardinality(SeasonOf(row))))
            /\ row.percentile_position.num > 0 /\ row.percentile_position.num <= row.percentile_position.den
            /\ row.percentile_overall.num > 0 /\ row.percentile_overall.num <= row.percentile_overall.den

\* the same for calls that did not raise
C25_ReturnedPercentilesAreGroupRanks ==
    (mode = "rankings" /\ pure_call.result # NotCalled /\ pure_call.result # Raise) =>
        \A row \in pure_call.result.rows :
            /\ SameFraction(row.percentile_position, Divide(AverageRank(row, GroupOf(row)), Cardinality(GroupOf(row))))
            /\ SameFraction(row.percentile_overall, Divide(AverageRank(row, SeasonOf(row)), Cardinality(SeasonOf(row))))

(***************************************************************************)
(* Properties of the defensive and punting point formulas                  *)
(***************************************************************************)
\* C26: for every IDP position and every assignment of the defensive
\* statistics, calculate_defensive_points returns the same points as the
\* processor's vectorized defensive formula on a row holding the same
\* statistics.
C26_DefensiveFormulasAgree ==
    (mode = "defensive_points" /\ pure_call.result # NotCalled) =>
        pure_call.result.calculator = pure_call.result.processor

\* C27: the fantasy_points_mppr of every PN row is -6.75 x punts + 0.15 x
\* punt yards + 2.0 x punts inside the 20 - 8.0 x blocked punts - 6.0 x
\* special-teams fumbles: every punting coefficient of the scoring table.
C27_PuntingAppliesEveryCoefficient ==
    (mode = "fantasy_points" /\ pure_call.result # NotCalled /\ pure_call.row.position = "PN") =>
        pure_call.result.fantasy_points_mppr =
            StatsGet(pure_call.row.cols, "punts") * (-6750) + StatsGet(pure_call.row.cols, "punt_yards") * 150
            + StatsGet(pure_call.row.cols, "punts_inside_20") * 2000 + StatsGet(pure_call.row.cols, "punts_blocked") * (-8000)
            + StatsGet(pure_call.row.cols, "fumbles_special_teams") * (-6000)

\* the four terms the processor does apply
C27_PuntingAppliesFourCoefficients ==
    (mode = "fantasy_points" /\ pure_call.result # NotCalled /\ pure_call.row.position = "PN") =>
        pure_call.result.fantasy_points_mppr =
            StatsGet(pure_call.row.cols, "punts") * (-6750) + StatsGet(pure_call.row.cols, "punt_yards") * 150
            + StatsGet(pure_call.row.cols, "punts_inside_20") * 2000 + StatsGet(pure_call.row.cols, "punts_blocked") * (-8000)

(***************************************************************************)
(* Properties of identify_breakpoint_tiers                                 *)
(***************************************************************************)
TierQualified == QualifiedPlayers(pure_call.stats_df, Position, pure_call.league_config)

TierCall == mode = "tiers" /\ pure_call.result # NotCalled /\ Cardinality(TierQualified) >= 1

\* C28: with num_tiers >= 1 and N >= 1 qualified players the call returns
\* exactly min(num_tiers, N) tiers, numbered from 1, that split the ranks
\* 1..N into non-empty contiguous bands: tier 1 starts at rank 1, each later
\* tier starts at the previous end_rank + 1, the last tier ends at rank N,
\* and every qualified player id is in exactly one tier.
C28_TiersPartitionTheRanks ==
    TierCall =>
        LET tiers == pure_call.result.tiers
            n == Cardinality(TierQualified)
            count == Min(pure_call.num_tiers, n)
        IN  /\ DOMAIN tiers = 1..count
            /\ tiers[1].start_rank = 1
            /\ tiers[count].end_rank = n
            /\ \A t \in 1..count :
                /\ tiers[t].start_rank <= tiers[t].end_rank
                /\ Len(tiers[t].players) = tiers[t].end_rank - tiers[t].start_rank + 1
                /\ t > 1 => tiers[t].start_rank = tiers[t - 1].end_rank + 1
            /\ \A r \in TierQualified :
                Cardinality({<<t, k>> \in (1..count) \X (1..n) :
                                k \in DOMAIN tiers[t].players /\ tiers[t].players[k] = r.player_id}) = 1

\* more tiers asked for than players qualify, and fewer, both with several tiers returned
C28_Witness ==
    /\ TierCall
    /\ Cardinality(DOMAIN pure_call.result.tiers) >= 2
    /\ Cardinality(TierQualified) > Cardinality(DOMAIN pure_call.result.tiers)
    /\ \E t \in DOMAIN pure_call.result.tiers : pure_call.result.tiers[t].player_count >= 2

C28_WitnessFewPlayers ==
    /\ TierCall
    /\ Cardinality(TierQualified) < pure_call.num_tiers
    /\ Cardinality(DOMAIN pure_call.result.tiers) = 2

(***************************************************************************)
(* Properties of calculate_value_over_replacement_curve                    *)
(***************************************************************************)
CurveCall == mode = "curve" /\ pure_call.result # NotCalled /\ pure_call.min_points < pure_call.max_points

\* C29: for min < max the curve has num_points entries, the first entry has
\* marginal_war 0 and every later entry has marginal_war equal to its war
\* minus the war of the entry before it.
C29_MarginalWarIsTheStep ==
    CurveCall =>
        LET curve == pure_call.result.curve
        IN  /\ Len(curve) = pure_call.num_points
            /\ curve # <<>> => curve[1].marginal_war = 0
            /\ \A i \in 2..Len(curve) : curve[i].marginal_war = curve[i].war - curve[i - 1].war

\* what the code does: the first entry's marginal_war is its own war
C29_FirstMarginalIsItsWar ==
    CurveCall =>
        LET curve == pure_call.result.curve
        IN  /\ Len(curve) = pure_call.num_points
            /\ curve # <<>> => curve[1].marginal_war = curve[1].war
            /\ \A i \in 2..Len(curve) : curve[i].marginal_war = curve[i].war - curve[i - 1].war

====
